---------------------------- MODULE Spec2Model ----------------------------
(***************************************************************************)
(* Gram-Connect team-formation engine: the metrics engine                  *)
(* (m3_recommend.py), the candidate pool preparer and the team builder     *)
(* (recommender_service.generate_recommendations and                       *)
(* m3_recommend.run_recommender), with the helpers of utils.py.            *)
(*                                                                         *)
(* Numbers.  The program computes in binary floating point.  The model     *)
(* computes with exact rationals <<n, d>> (d > 0, lowest terms); round()   *)
(* is round-half-even of the exact value to a fixed number of decimals,    *)
(* kept as the integer number of 1/1000 or 1/10000 units.                  *)
(***************************************************************************)
EXTENDS Integers, Sequences, FiniteSets, TLC

VARIABLES
    \* ---- one recommendation request (generate_recommendations / run_recommender)
    mode,             \* "service": generate_recommendations, "cli": run_recommender
    cfg,              \* the RecommendationConfig
    people,           \* read_people(config.people)
    schedule_map,     \* parse_schedule_csv(config.schedule_csv)
    probs,            \* the classifier oracle: person_id -> predicted probability
    pc,               \* where the request is
    filtered_people,  \* candidates left by the schedule filter, W adjusted in place
    ranked,           \* filtered_people ordered by probability
    team,             \* the greedy team
    team_score,       \* best_score / team_score of the greedy loop
    best_metrics,     \* metrics of the last committed candidate
    complete,         \* the greedy loop left through the completeness break
    recs,             \* base team and variants, scored
    final,            \* the teams handed to the uniqueness pass
    fidx,             \* position of the uniqueness pass in final
    assigned,         \* person ids claimed so far by the uniqueness pass
    resolved,         \* teams kept so far by the uniqueness pass
    result,           \* <<>>, or <<payload>> once the request returned
    err,              \* "", or the exception raised
    \* ---- metrics engine, applied to one (required, team, tau, k) input
    simtab,     \* the embedding/cosine oracle: <<requirement, phrase>> -> similarity
    mreq,       \* required: list of requirement ids
    mteam,      \* team_members: list of member records
    mtau,       \* tau
    mk,         \* k
    mout,       \* <<>>, or <<r>> with r the record of everything the engine returned
    \* ---- goodness, applied to one metrics record
    gmet,       \* metrics dict
    glam,       \* [red, size, will]: lambda_red, lambda_size, lambda_will
    gout,       \* <<>>, or <<[field, old, new, before, after]>> of the last change
    \* ---- one call of a function of utils.py
    ucall,      \* [fn |-> name, ...arguments]
    uret        \* <<>>, or <<value returned>>

pipeVars == <<mode, cfg, people, schedule_map, probs, pc, filtered_people, ranked,
              team, team_score, best_metrics, complete, recs, final, fidx,
              assigned, resolved, result, err>>
metricsVars == <<mreq, mteam, mtau, mk, mout>>
goodVars == <<gmet, glam, gout>>
utilVars == <<ucall, uret>>

(***************************************************************************)
(* Bounds of the model.                                                    *)
(***************************************************************************)
MaxTeam == 3        \* longest team handed to the metrics engine
NPeople == 3        \* rows of the people file of a request
MaxRows == 3        \* rows of a schedule file handed to parse_schedule_csv
MaxTeams == 3       \* teams handed to select_top_teams_by_size
MaxSorted == 12     \* sorted candidate teams handed to the final selection

(***************************************************************************)
(* Exact rationals.                                                        *)
(***************************************************************************)
RECURSIVE GCD(_, _)
GCD(a, b) == IF b = 0 THEN a ELSE GCD(b, a % b)

Abs(x) == IF x < 0 THEN -x ELSE x

RNorm(n, d) ==
    LET g == GCD(Abs(n), d)
    IN  IF n = 0 THEN <<0, 1>> ELSE <<n \div g, d \div g>>

Q(n, d) == RNorm(n, d)
RZero == <<0, 1>>
ROne == <<1, 1>>
RInt(n) == <<n, 1>>

RAdd(a, b) == RNorm(a[1] * b[2] + b[1] * a[2], a[2] * b[2])
RSub(a, b) == RNorm(a[1] * b[2] - b[1] * a[2], a[2] * b[2])
RMul(a, b) == RNorm(a[1] * b[1], a[2] * b[2])
\* a / b for b # 0
RDiv(a, b) ==
    IF b[1] > 0 THEN RNorm(a[1] * b[2], a[2] * b[1])
    ELSE RNorm(-(a[1] * b[2]), a[2] * (-b[1]))
RLt(a, b) == a[1] * b[2] < b[1] * a[2]
RLe(a, b) == a[1] * b[2] <= b[1] * a[2]
RMin(a, b) == IF RLe(a, b) THEN a ELSE b
RMax(a, b) == IF RLe(a, b) THEN b ELSE a
RAbs(a) == <<Abs(a[1]), a[2]>>

RECURSIVE RSumSeq(_)
RSumSeq(s) == IF s = <<>> THEN RZero ELSE RAdd(Head(s), RSumSeq(Tail(s)))

RECURSIVE RMaxSeq(_, _)
RMaxSeq(lo, s) == IF s = <<>> THEN lo ELSE RMaxSeq(RMax(lo, Head(s)), Tail(s))

RECURSIVE RMinSeq(_, _)
RMinSeq(hi, s) == IF s = <<>> THEN hi ELSE RMinSeq(RMin(hi, Head(s)), Tail(s))

\* float(np.mean(xs)) of a non-empty list
RMean(s) == RDiv(RSumSeq(s), RInt(Len(s)))

\* round(x, digits) as the integer number of 1/scale units, scale = 10^digits
Round(x, scale) ==
    LET n == x[1] * scale
        q == n \div x[2]
        r == n - q * x[2]
    IN  IF 2 * r < x[2] THEN q
        ELSE IF 2 * r > x[2] THEN q + 1
        ELSE IF q % 2 = 0 THEN q ELSE q + 1

Max(a, b) == IF a >= b THEN a ELSE b
Min(a, b) == IF a <= b THEN a ELSE b

(***************************************************************************)
(* Coverage / metrics engine (m3_recommend.py).                            *)
(* A member is a record with at least skills (list of phrase ids) and W.   *)
(* W is kept in tenths (0..10), a cosine similarity in quarters (0..4), so *)
(* a weighted similarity S * W, per_member_best, per_req_best and tau are  *)
(* exact in fortieths (tau = 14 is 0.35).  Everything derived from them    *)
(* (coverage, redundancy, k_robustness, goodness) is an exact rational.    *)
(***************************************************************************)
\* cosine_similarity(R, M)[r, col]: the oracle's value for one pair
Sim(r, ph) == simtab[<<r, ph>>]

\* S_w = S * Wcol, one column
S_w(r, ph, W) == Sim(r, ph) * W

RECURSIVE MaxOver(_, _)
MaxOver(lo, s) == IF s = <<>> THEN lo ELSE MaxOver(Max(lo, Head(s)), Tail(s))

\* per_member_best[u][i]: np.zeros, then np.maximum over the member's columns
per_member_best(required, m, i) ==
    MaxOver(0, [j \in 1..Len(m.skills) |-> S_w(required[i], m.skills[j], m.W)])

\* per_req_best[i]: np.max over the members
per_req_best_of(required, team_members, i) ==
    MaxOver(0, [u \in 1..Len(team_members) |->
                    per_member_best(required, team_members[u], i)])

\* coverage_adj taking the raw similarity, with no threshold
coverage_adj_unguarded(s, tau) ==
    RMax(RZero, RMin(ROne, Q(s, 40)))

\* adj entry of one requirement; denom = 1.0 - tau, and denom <= 1e-6 is
\* 40 - tau <= 0 in fortieths
coverage_adj(s, tau) ==
    IF s < tau THEN RZero
    ELSE LET denom == 40 - tau
         IN  IF denom <= 0 THEN ROne
             ELSE RMin(ROne, Q(s - tau, denom))

\* if not member_phrases
no_member_phrases(team_members) ==
    \A u \in 1..Len(team_members) : team_members[u].skills = <<>>

\* the second return value of similarity_coverage, keyed by the position of
\* the requirement in required
per_req_best_dict(required, team_members) ==
    IF required = <<>> THEN <<>>
    ELSE IF no_member_phrases(team_members) THEN [i \in 1..Len(required) |-> 0]
    ELSE [i \in 1..Len(required) |-> per_req_best_of(required, team_members, i)]

\* the third return value of similarity_coverage
covered_counts_dict(required, team_members, tau) ==
    IF required = <<>> THEN <<>>
    ELSE IF no_member_phrases(team_members) THEN [i \in 1..Len(required) |-> 0]
    ELSE [i \in 1..Len(required) |->
            Cardinality({u \in 1..Len(team_members) :
                per_member_best(required, team_members[u], i) >= tau})]

\* the first return value of similarity_coverage
coverage_value(required, team_members, tau) ==
    IF required = <<>> \/ no_member_phrases(team_members) THEN RZero
    ELSE RMean([i \in 1..Len(required) |->
                    coverage_adj(per_req_best_of(required, team_members, i), tau)])

\* returns (coverage, per_req_best, covered_counts)
similarity_coverage(required, team_members, tau) ==
    [coverage |-> coverage_value(required, team_members, tau),
     per_req_best |-> per_req_best_dict(required, team_members),
     covered_counts |-> covered_counts_dict(required, team_members, tau)]

\* redundancy_metric counting a requirement covered once
redundancy_metric_once(required, covered_counts) ==
    IF required = <<>> THEN RZero
    ELSE Q(Cardinality({i \in 1..Len(required) : covered_counts[i] >= 1}),
           Len(required))

redundancy_metric(required, covered_counts) ==
    IF required = <<>> THEN RZero
    ELSE Q(Cardinality({i \in 1..Len(required) : covered_counts[i] >= 2}),
           Len(required))

\* all_covered with any() for all()
all_covered_any(per_req_best, tau) ==
    \E i \in 1..Len(per_req_best) : per_req_best[i] >= tau

\* all(v >= tau for v in per_req_best.values())
all_covered(per_req_best, tau) ==
    \A i \in 1..Len(per_req_best) : per_req_best[i] >= tau

\* [m for i, m in enumerate(team_members) if i not in rem]
RECURSIVE sub_members_from(_, _, _)
sub_members_from(team_members, rem, i) ==
    IF i > Len(team_members) THEN <<>>
    ELSE IF i \in rem THEN sub_members_from(team_members, rem, i + 1)
    ELSE <<team_members[i]>> \o sub_members_from(team_members, rem, i + 1)

sub_members(team_members, rem) == sub_members_from(team_members, rem, 1)

\* k_clamp that leaves k as it is
k_clamp_none(k, n) == k

\* k = max(1, min(k, n - 1 if n > 1 else 1))
k_clamp(k, n) == Max(1, Min(k, IF n > 1 THEN n - 1 ELSE 1))

sample_limit == 2000

\* list(itertools.combinations(range(n), r))
combinations(n, r) == {rem \in SUBSET (1..n) : Cardinality(rem) = r}

\* for r in range(1, k + 1): subsets.extend(combs); break once over the limit
RECURSIVE collect_subsets(_, _, _, _)
collect_subsets(n, k, r, acc) ==
    IF r > k THEN acc
    ELSE LET more == acc \cup combinations(n, r)
         IN  IF Cardinality(more) > sample_limit THEN more
             ELSE collect_subsets(n, k, r + 1, more)

\* random.seed(42); random.sample(subsets, sample_limit): one fixed sample
seeded_sample(subsets) ==
    IF Cardinality(subsets) > sample_limit
    THEN CHOOSE s \in SUBSET subsets : Cardinality(s) = sample_limit
    ELSE subsets

k_robustness(required, team_members, tau, k) ==
    IF team_members = <<>> THEN RZero
    ELSE IF ~all_covered(per_req_best_dict(required, team_members), tau)
    THEN RZero
    ELSE LET n == Len(team_members)
             subsets == seeded_sample(collect_subsets(n, k_clamp(k, n), 1, {}))
             ok == Cardinality({rem \in subsets :
                      all_covered(per_req_best_dict(required,
                          sub_members(team_members, rem)), tau)})
         IN  IF subsets = {} THEN RZero ELSE Q(ok, Cardinality(subsets))

team_metrics(required, team_members, tau, k) ==
    LET soft_cap == Max(Len(required), 4)
        w_vals == [u \in 1..Len(team_members) |-> Q(team_members[u].W, 10)]
    IN  [coverage |-> coverage_value(required, team_members, tau),
         redundancy |-> redundancy_metric(required,
                            covered_counts_dict(required, team_members, tau)),
         set_size |-> RMin(Q(Len(team_members), soft_cap), ROne),
         k_robustness |-> k_robustness(required, team_members, tau, k),
         willingness_avg |-> IF w_vals = <<>> THEN RZero ELSE RMean(w_vals),
         willingness_min |-> IF w_vals = <<>> THEN RZero
                             ELSE RMinSeq(Head(w_vals), Tail(w_vals))]

\* goodness without the "+ 2.0" shift
goodness_unshifted(metrics, lambda_red, lambda_size, lambda_will) ==
    LET s == RSub(RSub(RAdd(RAdd(metrics.coverage, metrics.k_robustness),
                            RMul(lambda_will, metrics.willingness_avg)),
                       RMul(lambda_red, metrics.redundancy)),
                  RMul(lambda_size, metrics.set_size))
    IN  RDiv(s, RInt(4))

\* goodness with the redundancy term added instead of subtracted
goodness_red_added(metrics, lambda_red, lambda_size, lambda_will) ==
    LET s == RSub(RAdd(RAdd(RAdd(metrics.coverage, metrics.k_robustness),
                            RMul(lambda_will, metrics.willingness_avg)),
                       RMul(lambda_red, metrics.redundancy)),
                  RMul(lambda_size, metrics.set_size))
    IN  RDiv(RAdd(s, RInt(2)), RInt(4))

goodness(metrics, lambda_red, lambda_size, lambda_will) ==
    LET s == RSub(RSub(RAdd(RAdd(metrics.coverage, metrics.k_robustness),
                            RMul(lambda_will, metrics.willingness_avg)),
                       RMul(lambda_red, metrics.redundancy)),
                  RMul(lambda_size, metrics.set_size))
    IN  RDiv(RAdd(s, RInt(2)), RInt(4))

(***************************************************************************)
(* utils.py.  A datetime is a whole number of hours since a Monday 00:00;  *)
(* the ISO (year, week) of a datetime is the number of its week.           *)
(***************************************************************************)
HoursPerWeek == 168

\* (iso_year, iso_week) of cursor.isocalendar()
week_key_of(cursor) == cursor \div HoursPerWeek

\* cursor - timedelta(days=cursor.weekday())
week_start_of(cursor) == cursor - 24 * ((cursor \div 24) % 7)

\* the while loop of split_hours_by_week, as the list of (week_key, hours)
RECURSIVE split_segments(_, _)
split_segments(cursor, end) ==
    IF ~(cursor < end) THEN <<>>
    ELSE LET week_end == week_start_of(cursor) + HoursPerWeek
             segment_end == Min(end, week_end)
         IN  <<<<week_key_of(cursor), segment_end - cursor>>>>
                 \o split_segments(segment_end, end)

\* hours_by_week[week_key] += hours over a list of (week_key, hours)
RECURSIVE hours_of_week(_, _)
hours_of_week(segments, wk) ==
    IF segments = <<>> THEN 0
    ELSE (IF Head(segments)[1] = wk THEN Head(segments)[2] ELSE 0)
            + hours_of_week(Tail(segments), wk)

\* the dict returned: its keys, and its value at a key
split_hours_by_week(start, end) ==
    IF end <= start THEN <<>> ELSE split_segments(start, end)

week_keys(segments) == {segments[i][1] : i \in 1..Len(segments)}

\* intervals_overlap returning after the first interval
intervals_overlap_first(intervals, new_interval) ==
    /\ intervals # <<>>
    /\ intervals[1][1] < new_interval[2] /\ new_interval[1] < intervals[1][2]

intervals_overlap(intervals, new_interval) ==
    LET ns == new_interval[1]
        ne == new_interval[2]
    IN  \E i \in 1..Len(intervals) :
            intervals[i][1] < ne /\ ns < intervals[i][2]

\* SEVERITY_AVAILABILITY_PENALTIES with the rows of HIGH exchanged
SEVERITY_AVAILABILITY_PENALTIES_swapped(severity_level, label) ==
    IF severity_level = 2 /\ label = "generally available" THEN 4
    ELSE IF severity_level = 2 /\ label = "rarely available" THEN 2
    ELSE IF severity_level = 1 /\ label = "rarely available" THEN 2
    ELSE 0

\* SEVERITY_AVAILABILITY_PENALTIES, in tenths
SEVERITY_AVAILABILITY_PENALTIES(severity_level, label) ==
    IF severity_level = 2 /\ label = "generally available" THEN 2
    ELSE IF severity_level = 2 /\ label = "rarely available" THEN 4
    ELSE IF severity_level = 1 /\ label = "rarely available" THEN 2
    ELSE 0

\* None, where a string is expected
NoString == "<None>"

\* str.lower() on the strings of the model
lower(text) ==
    IF text = "Rarely Available" THEN "rarely available"
    ELSE IF text = "GENERALLY AVAILABLE" THEN "generally available"
    ELSE IF text = "Sometimes" THEN "sometimes"
    ELSE IF text = "CRITICAL" THEN "critical"
    ELSE IF text = "Routine" THEN "routine"
    ELSE text

severity_penalty(availability_label, severity_level) ==
    LET label == lower(IF availability_label = NoString THEN "" ELSE availability_label)
    IN  SEVERITY_AVAILABILITY_PENALTIES(severity_level, label)

\* SEVERITY_KEYWORDS
SEVERITY_KEYWORDS(level) ==
    IF level = 2
    THEN {"urgent", "immediate", "critical", "outbreak", "epidemic", "collapse",
          "broken", "flood", "drought", "disease", "contamination", "crisis",
          "emergency"}
    ELSE IF level = 1
    THEN {"audit", "survey", "assessment", "monitoring", "planning", "inspection",
          "review", "repair", "maintenance"}
    ELSE {}

\* "kw in word" for a keyword and a lower-case word of the model
substring(kw, word) ==
    \/ kw = word
    \/ <<kw, word>> \in {<<"immediate", "immediately">>, <<"review", "reviewed">>}

\* "kw in text_norm"; a text is [kind |-> "none"] (None) or
\* [kind |-> "str", words |-> the words, separated by blanks]
kw_in_text(kw, text) ==
    \E i \in 1..Len(text.words) : substring(kw, lower(text.words[i]))

\* estimate_severity looking for the NORMAL keywords first
estimate_severity_normal_first(text) ==
    IF text.kind = "none" \/ text.words = <<>> THEN 1
    ELSE IF \E kw \in SEVERITY_KEYWORDS(1) : kw_in_text(kw, text) THEN 1
    ELSE IF \E kw \in SEVERITY_KEYWORDS(2) : kw_in_text(kw, text) THEN 2
    ELSE 0

estimate_severity(text) ==
    IF text.kind = "none" \/ text.words = <<>> THEN 1
    ELSE IF \E kw \in SEVERITY_KEYWORDS(2) : kw_in_text(kw, text) THEN 2
    ELSE IF \E kw \in SEVERITY_KEYWORDS(1) : kw_in_text(kw, text) THEN 1
    ELSE 0

\* AVAILABILITY_LEVELS.get(avail_label, 1)
AVAILABILITY_LEVELS(label) ==
    IF label = "rarely available" THEN 0
    ELSE IF label = "immediately available" THEN 2
    ELSE 1

\* parse_datetime on a raw value: a value is [kind, t] with kind "none"
\* (absent or empty), "bad" (not ISO-8601), "overflow" (ISO-8601 with a UTC
\* offset that takes the instant out of the range of datetime: astimezone
\* raises OverflowError) or "ok" (parses to the hour t)
parse_datetime_raises(value) == value.kind # "ok"
parse_datetime_error(value) ==
    IF value.kind \in {"none", "bad"} THEN "ValueError"
    ELSE IF value.kind = "overflow" THEN "OverflowError"
    ELSE "none"
parse_datetime(value) == value.t

\* one pass of the loop of parse_schedule_csv over a row [pid, start, end]
\* (pid 0: no id): "skip" (continue), "raise" (an exception leaves the loop)
\* or "keep"
row_outcome(row) ==
    IF row.pid = 0 THEN "skip"
    ELSE IF row.start.kind = "none" \/ row.end.kind = "none" THEN "skip"
    ELSE IF parse_datetime_error(row.start) = "ValueError" THEN "skip"
    ELSE IF parse_datetime_error(row.start) # "none" THEN "raise"
    ELSE IF parse_datetime_error(row.end) = "ValueError" THEN "skip"
    ELSE IF parse_datetime_error(row.end) # "none" THEN "raise"
    ELSE IF parse_datetime(row.end) <= parse_datetime(row.start) THEN "skip"
    ELSE "keep"

\* the intervals parse_schedule_csv appends for one person (schedule.get(pid));
\* <<>> stands for no entry
RECURSIVE rows_intervals(_, _)
rows_intervals(rows, pid) ==
    IF rows = <<>> THEN <<>>
    ELSE (IF Head(rows).pid = pid /\ row_outcome(Head(rows)) = "keep"
          THEN <<<<parse_datetime(Head(rows).start), parse_datetime(Head(rows).end)>>>>
          ELSE <<>>)
            \o rows_intervals(Tail(rows), pid)

RECURSIVE intervals_segments(_)
intervals_segments(intervals) ==
    IF intervals = <<>> THEN <<>>
    ELSE split_hours_by_week(Head(intervals)[1], Head(intervals)[2])
            \o intervals_segments(Tail(intervals))

\* "except Exception: return {}" when a row raised
parse_schedule_csv(rows, pids) ==
    [pid \in pids |->
        LET iv == IF \E i \in 1..Len(rows) : row_outcome(rows[i]) = "raise"
                  THEN <<>>
                  ELSE rows_intervals(rows, pid)
        IN  [intervals |-> iv, week_hours |-> intervals_segments(iv)]]

(***************************************************************************)
(* Team building: what generate_recommendations (mode "service") and       *)
(* run_recommender (mode "cli") share.                                     *)
(***************************************************************************)
\* evaluate_team / evaluate: (score, metrics) of a team under the config
evaluate_team(required, team_list, c) ==
    LET metrics == team_metrics(required, team_list, c.tau, c.k_robust)
    IN  [score |-> goodness(metrics, c.lambda_red, c.lambda_size, c.lambda_will),
         metrics |-> metrics]

\* config.required_skills, blank entries removed; never empty in the model
required_of(c) == c.required_skills

ids_of(tlist) == [i \in 1..Len(tlist) |-> tlist[i].person_id]
names_of(tlist) == [i \in 1..Len(tlist) |-> tlist[i].name]
id_set(tlist) == {tlist[i].person_id : i \in 1..Len(tlist)}

\* score_team + the record appended to recs (add_rec); team_ids and
\* team_names are the lists that ";".join and "; ".join write out
team_record(tlist, c) ==
    LET ev == evaluate_team(required_of(c), tlist, c)
    IN  [team_ids |-> ids_of(tlist),
         team_names |-> names_of(tlist),
         team_size |-> Len(tlist),
         goodness |-> Round(ev.score, 10000),
         coverage |-> Round(ev.metrics.coverage, 1000),
         k_robustness |-> Round(ev.metrics.k_robustness, 1000),
         redundancy |-> Round(ev.metrics.redundancy, 1000),
         set_size |-> Round(ev.metrics.set_size, 1000),
         willingness_avg |-> Round(ev.metrics.willingness_avg, 1000),
         willingness_min |-> Round(ev.metrics.willingness_min, 1000),
         members |-> tlist]

\* soft_cap_of with "<=" for "<" in the loop test
soft_cap_of_inclusive(m, c) ==
    1 + (IF m = "service"
         THEN (IF c.team_size > c.soft_cap THEN c.team_size ELSE c.soft_cap)
         ELSE IF c.team_size # 0 THEN c.team_size ELSE c.soft_cap)

\* soft_cap of the greedy loop
soft_cap_of(m, c) ==
    IF m = "service"
    THEN Max(c.soft_cap, IF c.team_size # 0 THEN c.team_size ELSE c.soft_cap)
    ELSE IF c.team_size # 0 THEN c.team_size ELSE c.soft_cap

\* the replacement test of the candidate loop; exact arithmetic: two values
\* of the model that differ at all differ by more than the 1e-9 tolerance
better_candidate(m, delta, cov, prob, acc) ==
    \/ RLt(acc.delta, delta)
    \/ /\ delta = acc.delta
       /\ IF m = "service"
          THEN LET bcov == IF acc.cand = <<>> THEN RInt(-1) ELSE acc.metrics.coverage
               IN  RLt(bcov, cov) \/ (cov = bcov /\ prob > acc.prob)
          ELSE prob > acc.prob

no_candidate ==
    [cand |-> <<>>, score |-> RZero, metrics |-> <<>>, prob |-> -1, delta |-> RZero]

\* candidate_loop without "if person_id in team_ids: continue"
RECURSIVE candidate_loop_revisit(_, _, _, _, _, _, _)
candidate_loop_revisit(m, c, rk, tm, score, i, acc) ==
    IF i > Len(rk) THEN acc
    ELSE LET ev == evaluate_team(required_of(c), Append(tm, rk[i]), c)
             delta == RSub(ev.score, score)
             prob == probs[rk[i].person_id]
         IN  candidate_loop_revisit(m, c, rk, tm, score, i + 1,
                IF better_candidate(m, delta, ev.metrics.coverage, prob, acc)
                THEN [cand |-> <<rk[i]>>, score |-> ev.score, metrics |-> ev.metrics,
                      prob |-> prob, delta |-> delta]
                ELSE acc)

\* for person, prob in ranked: ... ; the state of the loop after ranked[i..]
RECURSIVE candidate_loop(_, _, _, _, _, _, _)
candidate_loop(m, c, rk, tm, score, i, acc) ==
    IF i > Len(rk) THEN acc
    ELSE IF rk[i].person_id \in id_set(tm)
    THEN candidate_loop(m, c, rk, tm, score, i + 1, acc)
    ELSE LET ev == evaluate_team(required_of(c), Append(tm, rk[i]), c)
             delta == RSub(ev.score, score)
             prob == probs[rk[i].person_id]
         IN  candidate_loop(m, c, rk, tm, score, i + 1,
                IF better_candidate(m, delta, ev.metrics.coverage, prob, acc)
                THEN [cand |-> <<rk[i]>>, score |-> ev.score, metrics |-> ev.metrics,
                      prob |-> prob, delta |-> delta]
                ELSE acc)

\* deemed_complete that never stops the loop
deemed_complete_never(metrics) == FALSE

\* coverage >= 0.999 and k_robustness >= 0.999
deemed_complete(metrics) ==
    RLe(Q(999, 1000), metrics.coverage) /\ RLe(Q(999, 1000), metrics.k_robustness)

\* variant = team.copy(); variant[i] = person
variant_of(tm, i, person) == [tm EXCEPT ![i] = person]

\* swap_shortlist that takes the whole ranking
swap_shortlist_all(rk, c) == rk

\* ranked[:max(1, config.topk_swap)]
swap_shortlist(rk, c) == SubSeq(rk, 1, Min(Len(rk), Max(1, c.topk_swap)))

RECURSIVE variants_from(_, _, _, _, _)
variants_from(rk, tm, c, j, i) ==
    IF j > Len(rk) THEN <<>>
    ELSE IF rk[j].person_id \in id_set(tm) \/ i > Len(tm)
    THEN variants_from(rk, tm, c, j + 1, 1)
    ELSE <<team_record(variant_of(tm, i, rk[j]), c)>>
            \o variants_from(rk, tm, c, j, i + 1)

\* recs: the base team, then every single-slot swap with a shortlisted non-member
all_recs(rk, tm, c) ==
    <<team_record(tm, c)>> \o variants_from(swap_shortlist(rk, c), tm, c, 1, 1)

\* {(r["team_ids"], r["team_names"]): r for r in recs}.values(): first
\* position of a key, last record of that key
dedup_key(r) == <<r.team_ids, r.team_names>>

RECURSIVE dedup_from(_, _)
dedup_from(rs, i) ==
    IF i > Len(rs) THEN <<>>
    ELSE IF \E j \in 1..(i - 1) : dedup_key(rs[j]) = dedup_key(rs[i])
    THEN dedup_from(rs, i + 1)
    ELSE LET last == CHOOSE j \in i..Len(rs) :
                        /\ dedup_key(rs[j]) = dedup_key(rs[i])
                        /\ \A l \in (j + 1)..Len(rs) : dedup_key(rs[l]) # dedup_key(rs[i])
         IN  <<rs[last]>> \o dedup_from(rs, i + 1)

\* dedup that keeps the first record only
dedup_head(rs) == IF rs = <<>> THEN <<>> ELSE <<Head(rs)>>

dedup(rs) == dedup_from(rs, 1)

\* sorted(..., key=lambda r: (r["goodness"], r["coverage"]), reverse=True): stable
sort_before(a, b) ==
    a.goodness > b.goodness \/ (a.goodness = b.goodness /\ a.coverage > b.coverage)

RECURSIVE insert_sorted(_, _)
insert_sorted(sorted, r) ==
    IF sorted = <<>> THEN <<r>>
    ELSE IF sort_before(r, Head(sorted)) THEN <<r>> \o sorted
    ELSE <<Head(sorted)>> \o insert_sorted(Tail(sorted), r)

RECURSIVE sort_recs_from(_, _, _)
sort_recs_from(rs, i, acc) ==
    IF i > Len(rs) THEN acc ELSE sort_recs_from(rs, i + 1, insert_sorted(acc, rs[i]))

sort_recs(rs) == sort_recs_from(rs, 1, <<>>)

(***************************************************************************)
(* Size buckets.  A bucket is [label, min, max, unbounded, limit];         *)
(* unbounded stands for max = math.inf.                                    *)
(***************************************************************************)
Bucket(label, lo, hi, limit) ==
    [label |-> label, min |-> lo, max |-> hi, unbounded |-> FALSE, limit |-> limit]

\* parse_size_buckets(DEFAULT_SIZE_BUCKETS), each limit replaced by num_teams if set
DEFAULT_SIZE_BUCKETS(num_teams) ==
    LET limit == IF num_teams # 0 THEN num_teams ELSE 10
    IN  <<Bucket("small", 2, 10, limit), Bucket("medium", 11, 50, limit),
          Bucket("large", 51, 200, limit)>>

\* the buckets the request selects with
buckets_of(m, c) ==
    IF m = "cli" \/ c.size_buckets # <<>> THEN c.size_buckets
    ELSE IF c.team_size # 0
    THEN <<Bucket("custom", c.team_size, c.team_size,
                  IF c.num_teams # 0 THEN c.num_teams ELSE 10)>>
    ELSE DEFAULT_SIZE_BUCKETS(c.num_teams)

bucket_matches(bucket, size) ==
    ~(size < bucket.min \/ (~bucket.unbounded /\ size > bucket.max))

\* grouped after the teams[i..] have been walked
RECURSIVE group_teams(_, _, _, _)
group_teams(teams, buckets, i, grouped) ==
    IF i > Len(teams) THEN grouped
    ELSE LET hits == {b \in 1..Len(buckets) : bucket_matches(buckets[b], teams[i].team_size)}
         IN  IF hits = {} THEN group_teams(teams, buckets, i + 1, grouped)
             ELSE LET b == CHOOSE x \in hits : \A y \in hits : x <= y
                      label == buckets[b].label
                  IN  group_teams(teams, buckets, i + 1,
                        IF Len(grouped[label]) < buckets[b].limit
                        THEN [grouped EXCEPT ![label] = Append(@, teams[i])]
                        ELSE grouped)

RECURSIVE concat_groups(_, _, _)
concat_groups(buckets, grouped, b) ==
    IF b > Len(buckets) THEN <<>>
    ELSE grouped[buckets[b].label] \o concat_groups(buckets, grouped, b + 1)

select_top_teams_by_size(teams, buckets) ==
    IF buckets = <<>> THEN teams
    ELSE LET labels == {buckets[b].label : b \in 1..Len(buckets)}
         IN  concat_groups(buckets,
                group_teams(teams, buckets, 1, [l \in labels |-> <<>>]), 1)

\* final = select_top_teams_by_size(sorted_recs, buckets) or sorted_recs[:N]
final_selection(m, c, sorted_recs) ==
    LET sel == select_top_teams_by_size(sorted_recs, buckets_of(m, c))
        N == IF m = "service" /\ c.num_teams # 0 THEN c.num_teams ELSE 10
    IN  IF sel # <<>> THEN sel ELSE SubSeq(sorted_recs, 1, Min(N, Len(sorted_recs)))

(***************************************************************************)
(* The uniqueness pass: _enforce_unique_members (service) and the inline   *)
(* loop at the end of run_recommender (cli), one team at a time.           *)
(***************************************************************************)
\* keep_members without the claimed test
keep_members_all(members, claimed) == members

\* keep_members losing the first member of every team
keep_members_rest(members, claimed) ==
    IF members = <<>> THEN <<>> ELSE Tail(members)

\* keep_members / keep: the members not yet assigned, in order
RECURSIVE keep_members(_, _)
keep_members(members, claimed) ==
    IF members = <<>> THEN <<>>
    ELSE (IF Head(members).person_id \in claimed THEN <<>> ELSE <<Head(members)>>)
            \o keep_members(Tail(members), claimed)

\* updated_team replacing the member list only
updated_team_stale(t, keep, c) ==
    IF Len(keep) < Len(t.members) THEN [t EXCEPT !.members = keep] ELSE t

\* updated_team: the record of the team after members were removed
updated_team(t, keep, c) ==
    IF Len(keep) < Len(t.members) THEN team_record(keep, c) ELSE t

\* below_threshold applied by both passes
below_threshold_both(m, r, kept) == Len(kept) > 0 /\ r.goodness < 2000

\* if len(resolved) > 0 and r["goodness"] < 0.2: continue   (run_recommender only)
below_threshold(m, r, kept) ==
    m = "cli" /\ Len(kept) > 0 /\ r.goodness < 2000

\* _enforce_unique_members / the inline pass of run_recommender over a whole
\* list: the teams kept, given the ids claimed and the teams kept so far
RECURSIVE unique_loop(_, _, _, _, _)
unique_loop(teams, claimed, kept, m, c) ==
    IF teams = <<>> THEN kept
    ELSE LET t == Head(teams)
             keep == keep_members(t.members, claimed)
         IN  IF keep = <<>> THEN unique_loop(Tail(teams), claimed, kept, m, c)
             ELSE LET r == updated_team(t, keep, c)
                  IN  IF below_threshold(m, r, kept)
                      THEN unique_loop(Tail(teams), claimed, kept, m, c)
                      ELSE unique_loop(Tail(teams), claimed \cup id_set(keep),
                                       Append(kept, r), m, c)

enforce_unique_members(teams, m, c) == unique_loop(teams, {}, <<>>, m, c)

(***************************************************************************)
(* One request, stage by stage.                                            *)
(***************************************************************************)
\* Raise returning an empty payload instead of raising
Raise_empty_payload(kind) ==
    /\ pc' = "done"
    /\ err' = ""
    /\ result' = <<[teams |-> <<>>]>>
    /\ UNCHANGED <<filtered_people, ranked, team, team_score, best_metrics, complete,
                   recs, final, fidx, assigned, resolved>>

Raise(kind) ==
    /\ pc' = "raised"
    /\ err' = kind
    /\ UNCHANGED <<filtered_people, ranked, team, team_score, best_metrics, complete,
                   recs, final, fidx, assigned, resolved, result>>

\* the exception type of a validation failure raised by the function itself
ValidationError == IF mode = "service" THEN "SystemExit" ELSE "ValueError"

\* task_start / task_end: presence, parse, order
Validate ==
    /\ pc = "start"
    /\ UNCHANGED <<mode, cfg, people, schedule_map, probs>>
    /\ IF mode = "service" /\ (cfg.task_start.kind = "none" \/ cfg.task_end.kind = "none")
       THEN Raise("SystemExit")
       ELSE IF parse_datetime_raises(cfg.task_start) \/ parse_datetime_raises(cfg.task_end)
       THEN Raise("ValueError")
       ELSE IF parse_datetime(cfg.task_end) <= parse_datetime(cfg.task_start)
       THEN Raise(ValidationError)
       ELSE IF mode = "service"
               /\ split_hours_by_week(parse_datetime(cfg.task_start),
                                      parse_datetime(cfg.task_end)) = <<>>
       THEN Raise("SystemExit")
       ELSE /\ pc' = "prepare"
            /\ UNCHANGED <<filtered_people, ranked, team, team_score, best_metrics,
                           complete, recs, final, fidx, assigned, resolved, result, err>>

task_interval == <<parse_datetime(cfg.task_start), parse_datetime(cfg.task_end)>>

RECURSIVE SumOver(_, _, _, _)
\* overwork_total += max(0.0, (existing + hrs) - config.weekly_quota) over
\* task_week_hours.items()
SumOver(keys, task_week_hours, week_hours_map, quota) ==
    IF keys = {} THEN 0
    ELSE LET wk == CHOOSE x \in keys : TRUE
             existing == hours_of_week(week_hours_map, wk)
             hrs == hours_of_week(task_week_hours, wk)
         IN  Max(0, (existing + hrs) - quota)
                + SumOver(keys \ {wk}, task_week_hours, week_hours_map, quota)

overwork_total_of(sched_info, task_week_hours, c) ==
    SumOver(week_keys(task_week_hours), task_week_hours, sched_info.week_hours,
            c.weekly_quota)

\* clamp01 without the upper bound
clamp01_floor_only(x) == Max(0, x)

\* max(0.0, min(1.0, x)) in tenths
clamp01(x) == Max(0, Min(10, x))

\* the candidate record of a person who passed the schedule filter
adjusted_person(person, sched_info, task_week_hours, c) ==
    LET overwork_total == overwork_total_of(sched_info, task_week_hours, c)
        adjusted_W == clamp01(person.W - c.overwork_penalty * overwork_total)
    IN  [person_id |-> person.person_id, name |-> person.name,
         skills |-> person.skills, availability |-> person.availability,
         distance_km |-> person.distance_km,
         W_original |-> person.W, W_base |-> adjusted_W, W |-> adjusted_W,
         overwork_hours |-> overwork_total, severity_penalty |-> 0,
         distance_penalty |-> 10]

\* if intervals and intervals_overlap(intervals, task_interval): continue
excluded(sched_info, interval) ==
    sched_info.intervals # <<>> /\ intervals_overlap(sched_info.intervals, interval)

RECURSIVE filter_people(_, _, _, _, _)
filter_people(ps, smap, interval, task_week_hours, c) ==
    IF ps = <<>> THEN <<>>
    ELSE (IF excluded(smap[Head(ps).person_id], interval) THEN <<>>
          ELSE <<adjusted_person(Head(ps), smap[Head(ps).person_id],
                                 task_week_hours, c)>>)
            \o filter_people(Tail(ps), smap, interval, task_week_hours, c)

\* the schedule filter and the overwork adjustment; an empty pool is fatal
Prepare ==
    /\ pc = "prepare"
    /\ UNCHANGED <<mode, cfg, people, schedule_map, probs>>
    /\ LET fp == filter_people(people, schedule_map, task_interval,
                     split_hours_by_week(task_interval[1], task_interval[2]), cfg)
       IN  IF fp = <<>> THEN Raise(ValidationError)
           ELSE /\ filtered_people' = fp
                /\ pc' = "rank"
                /\ UNCHANGED <<ranked, team, team_score, best_metrics, complete, recs,
                               final, fidx, assigned, resolved, result, err>>

\* math.exp(-x) in tenths, x counted in units of ln 2: 2.0, 1.0 and 0.5, and
\* 0.0 from 1075 units on, where the float underflows
exp_neg(x) ==
    IF x = -1 THEN 20 ELSE IF x = 0 THEN 10 ELSE IF x = 1 THEN 5 ELSE 0

\* distance_penalty; distance_km is the value lookup_distance_km returned,
\* counted in units of ln 2 times the distance_decay of the model
distance_penalty_of(distance_km, c) ==
    IF c.distance_decay > 0 THEN exp_neg(distance_km \div c.distance_decay) ELSE 10

\* W_after_severity = max(0.0, min(1.0, base_W - sev_pen))
W_after_severity_of(p, c) ==
    clamp01(p.W_base - severity_penalty(p.availability, c.severity_level))

\* the ranker's in-place update of one candidate
ranked_person(p, c) ==
    LET sev_pen == severity_penalty(p.availability, c.severity_level)
        distance_penalty == distance_penalty_of(p.distance_km, c)
        W_adjusted == clamp01((W_after_severity_of(p, c) * distance_penalty) \div 10)
    IN  [p EXCEPT !.W = W_adjusted, !.severity_penalty = sev_pen,
                  !.distance_penalty = distance_penalty]

\* sorted(zip(people, probs), key=lambda x: x[1], reverse=True): stable
RECURSIVE insert_ranked(_, _)
insert_ranked(rk, p) ==
    IF rk = <<>> THEN <<p>>
    ELSE IF probs[p.person_id] > probs[Head(rk).person_id] THEN <<p>> \o rk
    ELSE <<Head(rk)>> \o insert_ranked(Tail(rk), p)

RECURSIVE rank_from(_, _, _)
rank_from(ps, i, acc) ==
    IF i > Len(ps) THEN acc ELSE rank_from(ps, i + 1, insert_ranked(acc, ps[i]))

Rank ==
    /\ pc = "rank"
    /\ UNCHANGED <<mode, cfg, people, schedule_map, probs>>
    /\ LET fp == [i \in 1..Len(filtered_people) |-> ranked_person(filtered_people[i], cfg)]
           ev == evaluate_team(required_of(cfg), <<>>, cfg)
       IN  /\ filtered_people' = fp
           /\ ranked' = rank_from(fp, 1, <<>>)
           /\ team' = <<>>
           /\ team_score' = ev.score
           /\ best_metrics' = <<ev.metrics>>
    /\ pc' = "greedy"
    /\ UNCHANGED <<complete, recs, final, fidx, assigned, resolved, result, err>>

\* one pass of "while len(team) < soft_cap", or leaving the loop
Greedy ==
    /\ pc = "greedy"
    /\ UNCHANGED <<mode, cfg, people, schedule_map, probs, filtered_people, ranked,
                   recs, final, fidx, assigned, resolved, result, err>>
    /\ IF complete \/ ~(Len(team) < soft_cap_of(mode, cfg))
       THEN /\ pc' = "variants"
            /\ UNCHANGED <<team, team_score, best_metrics, complete>>
       ELSE LET best == candidate_loop(mode, cfg, ranked, team, team_score, 1, no_candidate)
            IN  IF best.cand = <<>> \/ RLe(best.delta, RZero)
                THEN /\ pc' = "variants"
                     /\ UNCHANGED <<team, team_score, best_metrics, complete>>
                ELSE /\ team' = Append(team, best.cand[1])
                     /\ team_score' = best.score
                     /\ best_metrics' = <<best.metrics>>
                     /\ complete' = deemed_complete(best.metrics)
                     /\ pc' = "greedy"

\* base team and variants, deduplicated, sorted, bucket-selected
Consolidate ==
    /\ pc = "variants"
    /\ UNCHANGED <<mode, cfg, people, schedule_map, probs, filtered_people, ranked,
                   team, team_score, best_metrics, complete, result, err>>
    /\ recs' = all_recs(ranked, team, cfg)
    /\ final' = final_selection(mode, cfg, sort_recs(dedup(recs')))
    /\ fidx' = 1
    /\ assigned' = {}
    /\ resolved' = <<>>
    /\ pc' = "unique"

\* one team of the uniqueness pass
\* the uniqueness pass keeping a team left without members
UniqueStep_keep_empty ==
    /\ pc = "unique"
    /\ fidx <= Len(final)
    /\ UNCHANGED <<mode, cfg, people, schedule_map, probs, filtered_people, ranked,
                   team, team_score, best_metrics, complete, recs, final, result, err, pc>>
    /\ fidx' = fidx + 1
    /\ LET t == final[fidx]
           keep == keep_members(t.members, assigned)
       IN  IF FALSE THEN UNCHANGED <<assigned, resolved>>
           ELSE LET r == updated_team(t, keep, cfg)
                IN  IF below_threshold(mode, r, resolved)
                    THEN UNCHANGED <<assigned, resolved>>
                    ELSE /\ assigned' = assigned \cup id_set(keep)
                         /\ resolved' = Append(resolved, r)

UniqueStep ==
    /\ pc = "unique"
    /\ fidx <= Len(final)
    /\ UNCHANGED <<mode, cfg, people, schedule_map, probs, filtered_people, ranked,
                   team, team_score, best_metrics, complete, recs, final, result, err, pc>>
    /\ fidx' = fidx + 1
    /\ LET t == final[fidx]
           keep == keep_members(t.members, assigned)
       IN  IF keep = <<>> THEN UNCHANGED <<assigned, resolved>>
           ELSE LET r == updated_team(t, keep, cfg)
                IN  IF below_threshold(mode, r, resolved)
                    THEN UNCHANGED <<assigned, resolved>>
                    ELSE /\ assigned' = assigned \cup id_set(keep)
                         /\ resolved' = Append(resolved, r)

\* the payload returned to the caller
Return ==
    /\ pc = "unique"
    /\ fidx > Len(final)
    /\ result' = <<[teams |-> resolved]>>
    /\ pc' = "done"
    /\ UNCHANGED <<mode, cfg, people, schedule_map, probs, filtered_people, ranked,
                   team, team_score, best_metrics, complete, recs, final, fidx,
                   assigned, resolved, err>>

(***************************************************************************)
(* Requests of the model.                                                  *)
(***************************************************************************)
Time(t) == [kind |-> "ok", t |-> t]
NoTime == [kind |-> "none", t |-> 0]
BadTime == [kind |-> "bad", t |-> 0]

\* RecommendationConfig defaults, with a task of two hours
BaseConfig ==
    [task_start |-> Time(10), task_end |-> Time(12),
     soft_cap |-> 2, team_size |-> 0, num_teams |-> 0, size_buckets |-> <<>>,
     tau |-> 14, k_robust |-> 1, topk_swap |-> 10,
     lambda_red |-> ROne, lambda_size |-> ROne, lambda_will |-> Q(1, 2),
     weekly_quota |-> 5, overwork_penalty |-> 1,
     required_skills |-> <<1, 2>>, severity_level |-> 1, distance_decay |-> 1]

\* rows of the people file, without the id
Profiles ==
    {[skills |-> <<1>>, W |-> 10, availability |-> "immediately available"],
     [skills |-> <<2>>, W |-> 10, availability |-> "generally available"],
     [skills |-> <<>>, W |-> 0, availability |-> "rarely available"]}

Person(i, prof) ==
    [person_id |-> i, name |-> 100 + i, skills |-> prof.skills, W |-> prof.W,
     availability |-> prof.availability, distance_km |-> 0]

\* busy intervals of one person around the task interval (10, 12)
BusyChoices ==
    {<<>>, <<<<8, 10>>>>, <<<<12, 14>>>>, <<<<11, 13>>>>, <<<<0, 5>>, <<9, 11>>>>}

RECURSIVE rows_of(_, _)
rows_of(busy, i) ==
    IF i > NPeople THEN <<>>
    ELSE [j \in 1..Len(busy[i]) |-> [pid |-> i, start |-> Time(busy[i][j][1]),
                                      end |-> Time(busy[i][j][2])]]
            \o rows_of(busy, i + 1)

NoSchedule == parse_schedule_csv(<<>>, 1..NPeople)

PipeStart ==
    /\ pc = "start"
    /\ filtered_people = <<>> /\ ranked = <<>> /\ team = <<>>
    /\ team_score = RZero /\ best_metrics = <<>> /\ complete = FALSE
    /\ recs = <<>> /\ final = <<>> /\ fidx = 0 /\ assigned = {} /\ resolved = <<>>
    /\ result = <<>> /\ err = ""

\* <<soft_cap, team_size (0: not given), lambda_size, required_skills,
\*   ranking scores all different>>
ConfigChoices ==
    {<<1, 0, ROne, <<1, 2>>, TRUE>>, <<2, 0, ROne, <<1, 2>>, FALSE>>,
     <<2, 0, ROne, <<1>>, FALSE>>, <<2, 0, ROne, <<1>>, TRUE>>,
     <<1, 2, ROne, <<1, 2>>, TRUE>>, <<2, 1, ROne, <<1, 2>>, FALSE>>,
     <<1, 0, RInt(5), <<1>>, FALSE>>, <<2, 0, RInt(5), <<1, 2>>, TRUE>>}

\* team building over every pool of profiles
InitBuilder ==
    /\ mode \in {"service", "cli"}
    /\ \E pool \in [1..NPeople -> Profiles] :
          /\ \A i \in 4..NPeople : pool[i].skills # <<>>
          /\ people = [i \in 1..NPeople |-> Person(i, pool[i])]
    /\ \E ch \in ConfigChoices :
          /\ cfg = [BaseConfig EXCEPT !.soft_cap = ch[1], !.team_size = ch[2],
                                      !.lambda_size = ch[3], !.required_skills = ch[4]]
          /\ probs = [i \in 1..NPeople |-> IF ch[5] THEN i ELSE 1]
    /\ schedule_map = NoSchedule

\* the schedule filter over every combination of busy intervals
InitSchedule ==
    /\ mode \in {"service", "cli"}
    /\ people = [i \in 1..NPeople |->
                    Person(i, [skills |-> <<1 + (i % 2)>>, W |-> 10,
                               availability |-> "immediately available"])]
    /\ probs = [i \in 1..NPeople |-> i]
    /\ cfg = BaseConfig
    /\ \E busy \in [1..NPeople -> BusyChoices] :
          /\ \A i \in 3..NPeople : busy[i] \in {<<>>, <<<<0, 5>>, <<9, 11>>>>}
          /\ schedule_map = parse_schedule_csv(rows_of(busy, 1), 1..NPeople)

\* task intervals, present or not, parsable or not, ordered or not
InitInterval ==
    /\ mode \in {"service", "cli"}
    /\ people = [i \in 1..NPeople |->
                    Person(i, [skills |-> <<1 + (i % 2)>>, W |-> 10,
                               availability |-> "immediately available"])]
    /\ probs = [i \in 1..NPeople |-> i]
    /\ \E ts \in {NoTime, BadTime, Time(10), Time(12)},
          te \in {NoTime, BadTime, Time(10), Time(12)} :
          cfg = [BaseConfig EXCEPT !.task_start = ts, !.task_end = te]
    /\ schedule_map = NoSchedule

\* <<task_start, task_end, weekly_quota, overwork_penalty (tenths of W per
\*   hour), severity_level, distances as looked up>>
Near == [i \in 1..NPeople |-> 0]
Mixed == [i \in 1..NPeople |-> IF i = 1 THEN 1 ELSE IF i = 2 THEN -1
                                ELSE IF i = 3 THEN 2000 ELSE 0]
WorkloadChoices ==
    {<<10, 13, 5, 1, 1, Near>>, <<10, 13, 5, 2, 2, Mixed>>,
     <<160, 172, 5, 1, 0, Near>>, <<10, 13, 5, -2, 2, Mixed>>,
     <<10, 13, 0, 20, 1, Near>>, <<160, 172, 5, 2, 2, Mixed>>}

\* hours already scheduled: 4 on Monday, 8 on Sunday, 4 on the next Monday
BusyHours == {<<>>, <<<<0, 4>>>>, <<<<150, 158>>>>, <<<<176, 180>>>>}

\* existing hours, quota and penalties of every kind
InitWorkload ==
    /\ mode \in {"service", "cli"}
    /\ probs = [i \in 1..NPeople |-> i]
    /\ \E ch \in WorkloadChoices :
          /\ cfg = [BaseConfig EXCEPT !.task_start = Time(ch[1]), !.task_end = Time(ch[2]),
                                      !.weekly_quota = ch[3], !.overwork_penalty = ch[4],
                                      !.severity_level = ch[5]]
          /\ people = [i \in 1..NPeople |->
                [Person(i, [skills |-> <<1 + (i % 2)>>, W |-> 10,
                            availability |-> IF i = 1 THEN "rarely available"
                                             ELSE IF i = 2 THEN "generally available"
                                             ELSE "immediately available"])
                    EXCEPT !.distance_km = ch[6][i]]]
    /\ \E busy \in [1..NPeople -> BusyHours] :
          /\ \A i \in 3..NPeople : busy[i] = <<>>
          /\ schedule_map = parse_schedule_csv(rows_of(busy, 1), 1..NPeople)

\* two candidates of equal gain: tau = 0.5, one responder with the required
\* skill and W = 0.6 (coverage 0.2), one without it and W = 1.0, ranked either
\* way round; swap shortlists shorter and longer than the ranking
InitTie ==
    /\ mode \in {"service", "cli"}
    /\ \E k \in {0, 1, 2, 10} :
          cfg = [BaseConfig EXCEPT !.tau = 20, !.required_skills = <<1>>,
                                   !.topk_swap = k]
    /\ people = [i \in 1..NPeople |->
                    Person(i, [skills |-> IF i = 1 THEN <<1>> ELSE <<>>,
                               W |-> IF i = 1 THEN 6 ELSE IF i = 2 THEN 10 ELSE 0,
                               availability |-> "immediately available"])]
    /\ \E up \in BOOLEAN :
          probs = [i \in 1..NPeople |-> IF up THEN i ELSE NPeople + 1 - i]
    /\ schedule_map = NoSchedule

\* a team that is complete below the cap while a further member would
\* still gain: a negative size weight rewards larger teams
InitComplete ==
    /\ mode \in {"service", "cli"}
    /\ cfg = [BaseConfig EXCEPT !.soft_cap = 3, !.lambda_size = RInt(-1),
                                !.required_skills = <<1>>]
    /\ people = [i \in 1..NPeople |->
                    Person(i, [skills |-> <<1>>, W |-> 10,
                               availability |-> "immediately available"])]
    /\ probs = [i \in 1..NPeople |-> i]
    /\ schedule_map = NoSchedule

PipeInit ==
    PipeStart /\ (InitBuilder \/ InitSchedule \/ InitInterval \/ InitWorkload
                    \/ InitTie \/ InitComplete)

PipeIdle ==
    /\ PipeStart
    /\ mode = "service" /\ people = <<>> /\ probs = <<>> /\ cfg = BaseConfig
    /\ schedule_map = <<>>

(***************************************************************************)
(* The metrics engine applied to one input (SpecMetrics).                  *)
(***************************************************************************)
ReqIds == {1, 2}
PhraseIds == {1, 2}

\* similarity tables of the oracle, in quarters
SimTables ==
    {[rp \in ReqIds \X PhraseIds |->
        IF rp = <<1, 1>> THEN a ELSE IF rp = <<2, 2>> THEN b
        ELSE IF rp = <<1, 2>> THEN c ELSE 0] :
     a \in {2, 4}, b \in {4}, c \in {0, 2}}

DefaultSim ==
    [rp \in ReqIds \X PhraseIds |-> IF rp[1] = rp[2] THEN 4 ELSE 0]

MetricMembers ==
    {[skills |-> <<1>>, W |-> 10], [skills |-> <<2>>, W |-> 10],
     [skills |-> <<1, 2>>, W |-> 5], [skills |-> <<>>, W |-> 7]}

MetricTeams == UNION {[1..n -> MetricMembers] : n \in 0..MaxTeam}

\* tau in fortieths: negative, 0, the default 0.35, 0.5, 1.0 and above 1
Taus == {-20, 0, 14, 20, 40, 60}

MetricsInit ==
    /\ simtab \in SimTables
    /\ mreq \in {<<>>, <<1>>, <<1, 2>>}
    /\ mteam \in MetricTeams
    /\ mtau \in Taus
    /\ mk \in {1, 2}
    /\ mout = <<>>

MetricsIdle ==
    /\ mreq = <<>> /\ mteam = <<>> /\ mtau = 14 /\ mk = 1 /\ mout = <<>>

\* one call of team_metrics, keeping what similarity_coverage returned as well
MEvaluate ==
    /\ mout = <<>>
    /\ LET sc == similarity_coverage(mreq, mteam, mtau)
       IN  mout' = <<[per_req_best |-> sc.per_req_best,
                      covered_counts |-> sc.covered_counts,
                      metrics |-> team_metrics(mreq, mteam, mtau, mk)]>>
    /\ UNCHANGED <<simtab, mreq, mteam, mtau, mk>>

(***************************************************************************)
(* goodness applied to metrics records that change one field at a time     *)
(* (SpecGoodness).                                                         *)
(***************************************************************************)
MetricGrid == {RZero, Q(1, 2), ROne}
MetricFields == {"coverage", "k_robustness", "redundancy", "set_size", "willingness_avg"}

default_lambda_red == ROne
default_lambda_size == ROne
default_lambda_will == Q(1, 2)

\* weights the configuration takes: any float, no validation
Lambdas ==
    {[red |-> r, size |-> z, will |-> default_lambda_will] :
        r \in {RInt(-1), RZero, default_lambda_red},
        z \in {RInt(-1), default_lambda_size, RInt(5)}}

GoodInit ==
    /\ gmet \in [MetricFields -> MetricGrid]
    /\ glam \in Lambdas
    /\ gout = <<>>

GoodIdle ==
    /\ gmet = [f \in MetricFields |-> RZero]
    /\ glam = [red |-> default_lambda_red, size |-> default_lambda_size,
               will |-> default_lambda_will]
    /\ gout = <<>>

GChange ==
    \E f \in MetricFields, v \in MetricGrid :
        /\ gout = <<>>
        /\ gmet' = [gmet EXCEPT ![f] = v]
        /\ gout' = <<[field |-> f, old |-> gmet[f], new |-> v,
                    before |-> goodness(gmet, glam.red, glam.size, glam.will),
                    after |-> goodness(gmet', glam.red, glam.size, glam.will)]>>
        /\ UNCHANGED glam

(***************************************************************************)
(* One call of a helper: a function of utils.py, or the construction of    *)
(* the task text in the two recommenders (SpecUtils).                      *)
(***************************************************************************)
UtilIdle == ucall = [fn |-> "none"] /\ uret = <<>>

AvailabilityLabels ==
    {"rarely available", "generally available", "immediately available",
     "Rarely Available", "GENERALLY AVAILABLE", "Sometimes", "", NoString}
SeverityLevels == {-1, 0, 1, 2, 3}

SeverityPenaltyCalls ==
    {[fn |-> "severity_penalty", availability_label |-> l, severity_level |-> v] :
        l \in AvailabilityLabels, v \in SeverityLevels}

TextWords ==
    {"emergency", "CRITICAL", "immediately", "repair", "reviewed", "Routine", "issue"}
Texts ==
    {[kind |-> "none", words |-> <<>>]}
        \cup {[kind |-> "str", words |-> w] : w \in UNION {[1..n -> TextWords] : n \in 0..2}}

EstimateSeverityCalls == {[fn |-> "estimate_severity", text |-> t] : t \in Texts}

USeverityPenalty ==
    /\ ucall.fn = "severity_penalty" /\ uret = <<>>
    /\ uret' = <<severity_penalty(ucall.availability_label, ucall.severity_level)>>
    /\ UNCHANGED ucall

UEstimateSeverity ==
    /\ ucall.fn = "estimate_severity" /\ uret = <<>>
    /\ uret' = <<estimate_severity(ucall.text)>>
    /\ UNCHANGED ucall

\* ', '.join(tags), as the pieces of the resulting string
join_tags(tags) ==
    IF Len(tags) = 0 THEN <<>>
    ELSE IF Len(tags) = 1 THEN <<tags[1]>>
    ELSE <<tags[1], ", ", tags[2]>>

\* the text run_recommender embeds, as the pieces of the string: the
\* multimodal fusion appends the labelled sections
task_text_cli(c) ==
    LET text == <<c.proposal_text>>
        with_audio ==
            IF c.transcription \notin {NoString, ""}
            THEN text \o <<"\n\n", "[Transcribed Audio Context]: ", c.transcription>>
            ELSE text
    IN  IF c.visual_tags # <<>>
        THEN with_audio \o <<"\n\n", "[Visual Content Tags]: ">> \o join_tags(c.visual_tags)
        ELSE with_audio

\* the text generate_recommendations embeds: config.proposal_text as it is
task_text_service(c) == <<c.proposal_text>>

Transcriptions == {NoString, "", "Transcribed text"}
VisualTags == {<<>>, <<"Tag1">>, <<"Infrastructure", "Water">>}
TaskTextCalls ==
    {[fn |-> "task_text", mode |-> m,
      config |-> [proposal_text |-> "Original text", transcription |-> t,
                  visual_tags |-> v]] :
        m \in {"service", "cli"}, t \in Transcriptions, v \in VisualTags}

\* rows of a schedule file: well-formed ones and malformed ones
OverflowTime == [kind |-> "overflow", t |-> 0]
ScheduleRows ==
    {[pid |-> 1, start |-> Time(10), end |-> Time(12)],
     [pid |-> 2, start |-> Time(20), end |-> Time(24)],
     [pid |-> 1, start |-> Time(30), end |-> Time(31)],
     [pid |-> 0, start |-> Time(10), end |-> Time(12)],
     [pid |-> 2, start |-> NoTime, end |-> Time(12)],
     [pid |-> 2, start |-> Time(10), end |-> BadTime],
     [pid |-> 1, start |-> Time(12), end |-> Time(12)],
     [pid |-> 2, start |-> OverflowTime, end |-> Time(12)],
     [pid |-> 1, start |-> BadTime, end |-> OverflowTime]}
ScheduleFiles == UNION {[1..n -> ScheduleRows] : n \in 0..MaxRows}
ParseScheduleCalls == {[fn |-> "parse_schedule_csv", rows |-> f] : f \in ScheduleFiles}

UParseSchedule ==
    /\ ucall.fn = "parse_schedule_csv" /\ uret = <<>>
    /\ uret' = <<parse_schedule_csv(ucall.rows, 1..NPeople)>>
    /\ UNCHANGED ucall

\* bucket lists handed to select_top_teams_by_size: disjoint and overlapping
\* ranges, an open range, a limit of 0, a repeated label
OpenBucket(label, lo, limit) ==
    [label |-> label, min |-> lo, max |-> 0, unbounded |-> TRUE, limit |-> limit]
BucketLists ==
    {<<Bucket("small", 1, 1, 1), Bucket("large", 2, 3, 2)>>,
     <<Bucket("small", 1, 2, 1), Bucket("large", 2, 3, 1)>>,
     <<Bucket("large", 2, 3, 2), Bucket("small", 1, 1, 2)>>,
     <<Bucket("none", 1, 1, 0), OpenBucket("any", 1, 2)>>,
     <<Bucket("pair", 2, 2, 1)>>,
     <<Bucket("x", 1, 1, 1), Bucket("x", 2, 2, 1)>>,
     <<Bucket("x", 1, 1, 2), Bucket("x", 2, 3, 2)>>}

\* teams in sorted order: the i-th best has the key i and a size of 1..MaxTeam
SortedTeams ==
    UNION {{[i \in 1..n |-> [team_ids |-> i, team_size |-> sz[i]]] :
                sz \in [1..n -> 1..MaxTeam]} : n \in 0..MaxTeams}

SelectCalls ==
    {[fn |-> "select_top_teams_by_size", teams |-> t, buckets |-> b] :
        t \in SortedTeams, b \in BucketLists}

USelectTopTeams ==
    /\ ucall.fn = "select_top_teams_by_size" /\ uret = <<>>
    /\ uret' = <<select_top_teams_by_size(ucall.teams, ucall.buckets)>>
    /\ UNCHANGED ucall

\* sorted candidate lists of 0..MaxSorted teams of two or three members, and
\* the bucket settings of a request
LongLists ==
    {[i \in 1..n |-> [team_ids |-> i, team_size |-> 2 + (i % 2)]] : n \in 0..MaxSorted}
BucketSettings ==
    {[size_buckets |-> b, team_size |-> ts, num_teams |-> nt] :
        b \in {<<>>, <<Bucket("pair", 2, 2, 3)>>}, ts \in {0, 3}, nt \in {0, 2}}
FinalSelectionCalls ==
    {[fn |-> "final_selection", mode |-> m, config |-> c, sorted_recs |-> t] :
        m \in {"service", "cli"}, c \in BucketSettings, t \in LongLists}

UFinalSelection ==
    /\ ucall.fn = "final_selection" /\ uret = <<>>
    /\ uret' = <<final_selection(ucall.mode, ucall.config, ucall.sorted_recs)>>
    /\ UNCHANGED ucall

\* calls of split_hours_by_week: starts on several weekdays and times of day,
\* ends before, at and after the start, inside the week and across Mondays
SplitStarts == {0, 10, 24, 100, 160, 167, 168, 180}
SplitSpans == {0 - 5, 0, 1, 8, 12, 168, 200}
SplitCalls ==
    {[fn |-> "split_hours_by_week", start |-> s, end |-> s + d] :
        s \in SplitStarts, d \in SplitSpans}

USplitHours ==
    /\ ucall.fn = "split_hours_by_week" /\ uret = <<>>
    /\ uret' = <<split_hours_by_week(ucall.start, ucall.end)>>
    /\ UNCHANGED ucall

UTaskText ==
    /\ ucall.fn = "task_text" /\ uret = <<>>
    /\ uret' = <<IF ucall.mode = "service" THEN task_text_service(ucall.config)
                                           ELSE task_text_cli(ucall.config)>>
    /\ UNCHANGED ucall

UtilCalls ==
    SeverityPenaltyCalls \cup EstimateSeverityCalls \cup TaskTextCalls
        \cup ParseScheduleCalls \cup SelectCalls \cup FinalSelectionCalls
        \cup SplitCalls
UtilInit == ucall \in UtilCalls /\ uret = <<>>

vars == <<mode, cfg, people, schedule_map, probs, pc, filtered_people, ranked,
          team, team_score, best_metrics, complete, recs, final, fidx,
          assigned, resolved, result, err,
          simtab, mreq, mteam, mtau, mk, mout, gmet, glam, gout, ucall, uret>>

\* a recommendation request
Init == PipeInit /\ simtab = DefaultSim /\ MetricsIdle /\ GoodIdle /\ UtilIdle
EngineIdle ==
    /\ UNCHANGED <<simtab>> /\ UNCHANGED metricsVars /\ UNCHANGED goodVars
    /\ UNCHANGED utilVars
Next ==
    \/ Validate /\ EngineIdle
    \/ Prepare /\ EngineIdle
    \/ Rank /\ EngineIdle
    \/ Greedy /\ EngineIdle
    \/ Consolidate /\ EngineIdle
    \/ UniqueStep /\ EngineIdle
    \/ Return /\ EngineIdle
Spec == Init /\ [][Next]_vars

MetricsNext ==
    MEvaluate /\ UNCHANGED goodVars /\ UNCHANGED pipeVars /\ UNCHANGED utilVars
MetricsSpecInit == MetricsInit /\ GoodIdle /\ PipeIdle /\ UtilIdle
SpecMetrics == MetricsSpecInit /\ [][MetricsNext]_vars

GoodNext ==
    /\ GChange
    /\ UNCHANGED <<simtab>> /\ UNCHANGED metricsVars /\ UNCHANGED pipeVars
    /\ UNCHANGED utilVars
GoodSpecInit == GoodInit /\ MetricsIdle /\ PipeIdle /\ simtab = DefaultSim /\ UtilIdle
SpecGoodness == GoodSpecInit /\ [][GoodNext]_vars

UtilSpecInit == UtilInit /\ MetricsIdle /\ GoodIdle /\ PipeIdle /\ simtab = DefaultSim
UtilIdleRest ==
    /\ UNCHANGED <<simtab>> /\ UNCHANGED metricsVars /\ UNCHANGED goodVars
    /\ UNCHANGED pipeVars
UtilNext ==
    \/ USeverityPenalty /\ UtilIdleRest
    \/ UEstimateSeverity /\ UtilIdleRest
    \/ UTaskText /\ UtilIdleRest
    \/ UParseSchedule /\ UtilIdleRest
    \/ USelectTopTeams /\ UtilIdleRest
    \/ UFinalSelection /\ UtilIdleRest
    \/ USplitHours /\ UtilIdleRest
SpecUtils == UtilSpecInit /\ [][UtilNext]_vars

(***************************************************************************)
(* Claims about a request (Spec).                                          *)
(***************************************************************************)
TeamsOf(rs) == {rs[i] : i \in 1..Len(rs)}
Returned == IF result = <<>> THEN <<>> ELSE result[1].teams

Disjoint(rs) ==
    \A i, j \in 1..Len(rs) :
        i # j => id_set(rs[i].members) \cap id_set(rs[j].members) = {}

\* C1: after the uniqueness pass (and all along it) no person_id is in the
\* member list of more than one kept team, in the service and in the cli pass.
C1_NoSharedMember == Disjoint(resolved) /\ Disjoint(Returned)

\* C1 witness: the request returned at least two teams, and the teams handed
\* to the pass did share a member.
C1_Witness ==
    /\ pc = "done" /\ Len(Returned) >= 2
    /\ ~Disjoint(final)

\* the members of t nobody claimed yet, in their order
Unclaimed(t, claimed) ==
    LET free(m) == m.person_id \notin claimed IN SelectSeq(t.members, free)

ClaimedBy(rs) == UNION {id_set(rs[i].members) : i \in 1..Len(rs)}

\* what the pass makes of a team that still has unclaimed members
Shrunk(t, claimed) ==
    IF Len(Unclaimed(t, claimed)) < Len(t.members)
    THEN team_record(Unclaimed(t, claimed), cfg) ELSE t

\* C2 as claimed: a team of the pass is dropped iff all its members are
\* claimed by earlier kept teams; otherwise it is kept with exactly its
\* unclaimed members in order; in both passes.
C2_DropIffAllClaimed ==
    [][(pc = "unique" /\ fidx <= Len(final)) =>
        /\ assigned = ClaimedBy(resolved)
        /\ IF Unclaimed(final[fidx], assigned) = <<>>
           THEN resolved' = resolved
           ELSE /\ Len(resolved') = Len(resolved) + 1
                /\ SubSeq(resolved', 1, Len(resolved)) = resolved
                /\ resolved'[Len(resolved')].members = Unclaimed(final[fidx], assigned)
      ]_vars

\* C2 amended: the same for _enforce_unique_members; the inline pass of
\* run_recommender also drops a team that still has unclaimed members when a
\* team was kept before it and its goodness (recomputed after removals) is
\* below 0.2, and then claims none of its members.
C2_DropIffAllClaimedOrWeak ==
    [][(pc = "unique" /\ fidx <= Len(final)) =>
        /\ assigned = ClaimedBy(resolved)
        /\ IF \/ Unclaimed(final[fidx], assigned) = <<>>
              \/ /\ mode = "cli" /\ resolved # <<>>
                 /\ Shrunk(final[fidx], assigned).goodness < 2000
           THEN resolved' = resolved /\ assigned' = assigned
           ELSE /\ Len(resolved') = Len(resolved) + 1
                /\ SubSeq(resolved', 1, Len(resolved)) = resolved
                /\ resolved'[Len(resolved')].members = Unclaimed(final[fidx], assigned)
                /\ assigned' = ClaimedBy(resolved')
      ]_vars

\* C2 witness: a pass that kept a team whole, kept another with part of its
\* members and dropped a third.
C2_Witness ==
    /\ pc = "done" /\ Len(resolved) >= 2 /\ Len(resolved) < Len(final)
    /\ \E i \in 1..Len(resolved) : resolved[i].team_size = Len(team)
    /\ \E i \in 1..Len(resolved) : resolved[i].team_size < Len(team)

\* the record fields agree with the members and with a fresh evaluation
Consistent(r) ==
    LET ev == evaluate_team(cfg.required_skills, r.members, cfg)
    IN  /\ r.team_size = Len(r.members)
        /\ r.team_ids = [i \in 1..Len(r.members) |-> r.members[i].person_id]
        /\ r.team_names = [i \in 1..Len(r.members) |-> r.members[i].name]
        /\ r.goodness = Round(ev.score, 10000)
        /\ r.coverage = Round(ev.metrics.coverage, 1000)
        /\ r.k_robustness = Round(ev.metrics.k_robustness, 1000)
        /\ r.redundancy = Round(ev.metrics.redundancy, 1000)
        /\ r.set_size = Round(ev.metrics.set_size, 1000)
        /\ r.willingness_avg = Round(ev.metrics.willingness_avg, 1000)
        /\ r.willingness_min = Round(ev.metrics.willingness_min, 1000)

\* C3: a kept team that lost members carries the size, ids, names and the
\* freshly evaluated (rounded) metrics of the members it kept; a kept team
\* that lost none is the record that was handed in.
C3_ShrunkRecordConsistent ==
    \A i \in 1..Len(resolved) :
        /\ Consistent(resolved[i])
        /\ resolved[i].team_size = Len(team) => resolved[i] \in TeamsOf(final)

\* C3 witness: a returned team that lost a member and whose goodness is not
\* the goodness of any team handed in.
C3_Witness ==
    /\ pc = "done"
    /\ \E i \in 1..Len(resolved) :
          /\ resolved[i].team_size < Len(team)
          /\ \A j \in 1..Len(final) : final[j].goodness # resolved[i].goodness

AllTeamSizes ==
    {Len(team)} \cup {recs[i].team_size : i \in 1..Len(recs)}
        \cup {Len(recs[i].members) : i \in 1..Len(recs)}
        \cup {Len(final[i].members) : i \in 1..Len(final)}
        \cup {Len(Returned[i].members) : i \in 1..Len(Returned)}

\* C4 as claimed: no team is larger than config.soft_cap, whatever team_size is.
C4_WithinConfiguredSoftCap == \A n \in AllTeamSizes : n <= cfg.soft_cap

\* C4 amended: no team is larger than the cap the loop uses, which is
\* max(soft_cap, team_size) in generate_recommendations and team_size (when
\* set, else soft_cap) in run_recommender.
C4_WithinEffectiveCap ==
    \A n \in AllTeamSizes :
        n <= (IF cfg.team_size = 0 THEN cfg.soft_cap
              ELSE IF mode = "service" /\ cfg.soft_cap > cfg.team_size THEN cfg.soft_cap
              ELSE cfg.team_size)

\* C4 witness: the greedy team stopped at a cap below the pool size while
\* not complete, and teams were returned.
C4_Witness ==
    /\ pc = "done" /\ Returned # <<>> /\ ~complete
    /\ Len(team) < Len(ranked)
    /\ Len(team) = (IF cfg.team_size = 0 THEN cfg.soft_cap
                    ELSE IF mode = "service" /\ cfg.soft_cap > cfg.team_size
                    THEN cfg.soft_cap ELSE cfg.team_size)

\* a busy interval (s, e) of the person overlaps the task interval
Overlapping(pid) ==
    \E i \in 1..Len(schedule_map[pid].intervals) :
        /\ schedule_map[pid].intervals[i][1] < cfg.task_end.t
        /\ cfg.task_start.t < schedule_map[pid].intervals[i][2]

MemberIds ==
    id_set(team) \cup UNION {id_set(recs[i].members) : i \in 1..Len(recs)}
        \cup UNION {id_set(final[i].members) : i \in 1..Len(final)}
        \cup UNION {id_set(resolved[i].members) : i \in 1..Len(resolved)}
        \cup UNION {id_set(Returned[i].members) : i \in 1..Len(Returned)}

\* C5: a responder with a busy interval overlapping the task interval is not
\* in the candidate pool and in no team; a responder whose intervals only
\* touch the task interval stays in the pool.
C5_OverlapExcluded ==
    pc \notin {"start", "prepare", "raised"} =>
        /\ id_set(filtered_people) = {p \in id_set(people) : ~Overlapping(p)}
        /\ id_set(ranked) \subseteq id_set(filtered_people)
        /\ MemberIds \subseteq id_set(filtered_people)

\* C5 witness: teams were returned for a pool with an overlapping responder,
\* and a responder whose busy interval ends when the task starts is a member.
C5_Witness ==
    /\ pc = "done"
    /\ \E p \in id_set(people) : Overlapping(p)
    /\ \E p \in MemberIds : schedule_map[p].intervals = <<<<8, 10>>>>

BadInterval ==
    \/ cfg.task_start.kind # "ok" \/ cfg.task_end.kind # "ok"
    \/ cfg.task_end.t <= cfg.task_start.t

EmptyPool == ~BadInterval /\ \A p \in id_set(people) : Overlapping(p)

\* C6: a request with a missing or unparsable task_start/task_end, with
\* task_end <= task_start, or with no candidate left by the schedule filter
\* never gets past validation: it ends raised with an exception and no payload.
C6_InvalidRequestAborts ==
    /\ BadInterval => pc \in {"start", "raised"}
    /\ EmptyPool => pc \in {"start", "prepare", "raised"}
    /\ (BadInterval \/ EmptyPool) => result = <<>>
    /\ pc = "raised" => (result = <<>> /\ err \in {"SystemExit", "ValueError"})

\* C6 witness: a request raised because every candidate was busy.
C6_Witness == pc = "raised" /\ EmptyPool /\ result = <<>>

(***************************************************************************)
(* Claims about the metrics engine (SpecMetrics).                          *)
(***************************************************************************)
Out == mout[1]

\* C7: k_robustness is 0 when some requirement's per_req_best is below tau,
\* and when the team is empty.
C7_KRobustZeroUnlessSaturated ==
    mout # <<>> =>
        ((mteam = <<>> \/ \E i \in 1..Len(mreq) : Out.per_req_best[i] < mtau)
            => Out.metrics.k_robustness = RZero)

\* C7 witness: a team of two or more that covers one requirement at tau and
\* misses the other.
C7_Witness ==
    /\ mout # <<>> /\ Len(mteam) >= 2 /\ Len(mreq) = 2
    /\ Out.per_req_best[1] >= mtau /\ Out.per_req_best[2] < mtau

\* C8: coverage is in [0,1]; it is 0 for no requirement, for no member and
\* for members without any skill phrase; requirements whose per_req_best is
\* below tau add nothing to it.
C8_CoverageRange ==
    mout # <<>> =>
        LET cov == Out.metrics.coverage
            hit == Cardinality({i \in 1..Len(mreq) : Out.per_req_best[i] >= mtau})
        IN  /\ RLe(RZero, cov) /\ RLe(cov, ROne)
            /\ mreq = <<>> => cov = RZero
            /\ mteam = <<>> => cov = RZero
            /\ (\A u \in 1..Len(mteam) : mteam[u].skills = <<>>) => cov = RZero
            /\ mreq # <<>> => RLe(cov, Q(hit, Len(mreq)))

\* C8 witness: a coverage strictly between 0 and 1 with one requirement below tau.
C8_Witness ==
    /\ mout # <<>> /\ Len(mreq) = 2
    /\ RLt(RZero, Out.metrics.coverage) /\ RLt(Out.metrics.coverage, ROne)
    /\ \E i \in 1..2 : Out.per_req_best[i] < mtau

\* best weighted similarity of member u to requirement i
MemberBest(u, i) ==
    LET vals == {simtab[<<mreq[i], mteam[u].skills[j]>>] * mteam[u].W :
                    j \in 1..Len(mteam[u].skills)}
    IN  IF vals = {} THEN 0 ELSE CHOOSE v \in vals : \A w \in vals : w <= v

Step == gout[1]

Monotone(sign) ==
    IF sign > 0
    THEN (RLe(Step.old, Step.new) => RLe(Step.before, Step.after))
    ELSE (RLe(Step.old, Step.new) => RLe(Step.after, Step.before))

MonotoneAll ==
    /\ Step.field \in {"coverage", "k_robustness"} => Monotone(1)
    /\ Step.field \in {"redundancy", "set_size"} => Monotone(-1)

C11_GoodnessFormula ==
    pc \in {"greedy", "variants", "unique", "done"} =>
        LET m == best_metrics[1]
            plus == RAdd(RAdd(RAdd(m.coverage, m.k_robustness),
                              RMul(cfg.lambda_will, m.willingness_avg)), RInt(2))
            minus == RAdd(RMul(cfg.lambda_red, m.redundancy),
                          RMul(cfg.lambda_size, m.set_size))
        IN  /\ RAdd(RMul(RInt(4), team_score), minus) = plus
            /\ team = <<>> =>
                  /\ \A f \in DOMAIN m : m[f] = RZero
                  /\ team_score = Q(1, 2)

\* C11 witness: a team of two with some robustness and a score above the
\* score of the empty team.
C11_Witness ==
    /\ pc = "done" /\ Len(team) >= 2
    /\ RLt(RZero, best_metrics[1].k_robustness)
    /\ RLt(Q(1, 2), team_score)

\* hours of [s, e) inside ISO week w (Monday 00:00 to the next Monday 00:00)
HoursInWeek(s, e, w) ==
    LET lo == IF s > HoursPerWeek * w THEN s ELSE HoursPerWeek * w
        hi == IF e < HoursPerWeek * (w + 1) THEN e ELSE HoursPerWeek * (w + 1)
    IN  IF hi > lo THEN hi - lo ELSE 0

RECURSIVE ExistingHours(_, _)
ExistingHours(intervals, w) ==
    IF intervals = <<>> THEN 0
    ELSE HoursInWeek(Head(intervals)[1], Head(intervals)[2], w)
            + ExistingHours(Tail(intervals), w)

RECURSIVE OverworkOver(_, _)
OverworkOver(weeks, pid) ==
    IF weeks = {} THEN 0
    ELSE LET w == CHOOSE x \in weeks : TRUE
             total == ExistingHours(schedule_map[pid].intervals, w)
                        + HoursInWeek(cfg.task_start.t, cfg.task_end.t, w)
         IN  (IF total > cfg.weekly_quota THEN total - cfg.weekly_quota ELSE 0)
                + OverworkOver(weeks \ {w}, pid)

WeeksTouched ==
    {w \in 0..((cfg.task_end.t \div HoursPerWeek) + 1) :
        HoursInWeek(cfg.task_start.t, cfg.task_end.t, w) > 0}

\* C12: for every responder that passed the schedule filter, overwork_hours
\* is the sum over the ISO weeks touched by the task of max(0, existing hours
\* of the week + task hours in the week - weekly_quota), and W after the
\* preparer is clamp(base W - overwork_penalty * overwork_hours, 0, 1).
C12_OverworkPerIsoWeek ==
    pc \in {"rank", "greedy", "variants", "unique", "done"} =>
        \A i \in 1..Len(filtered_people) :
            LET p == filtered_people[i]
                raw == p.W_original - cfg.overwork_penalty * p.overwork_hours
            IN  /\ p.overwork_hours = OverworkOver(WeeksTouched, p.person_id)
                /\ p.W_base = (IF raw < 0 THEN 0 ELSE IF raw > 10 THEN 10 ELSE raw)

AllMembers ==
    {team[i] : i \in 1..Len(team)}
        \cup UNION {{recs[i].members[j] : j \in 1..Len(recs[i].members)} : i \in 1..Len(recs)}
        \cup UNION {{final[i].members[j] : j \in 1..Len(final[i].members)} : i \in 1..Len(final)}
        \cup UNION {{Returned[i].members[j] : j \in 1..Len(Returned[i].members)} :
                        i \in 1..Len(Returned)}

UnitInterval(w) == 0 <= w /\ w <= 10

\* C13: W is in [0,1] after the overwork adjustment, after the severity
\* penalty and after the distance penalty, and for every member of every
\* scored or returned team, whatever the penalty coefficients, the existing
\* hours and the distances are.
C13_WillingnessClamped ==
    /\ \A i \in 1..Len(filtered_people) :
          /\ UnitInterval(filtered_people[i].W_base)
          /\ UnitInterval(filtered_people[i].W)
          /\ UnitInterval(W_after_severity_of(filtered_people[i], cfg))
    /\ \A i \in 1..Len(ranked) : UnitInterval(ranked[i].W)
    /\ \A m \in AllMembers : UnitInterval(m.W)

\* C13 witness: a returned member whose W before clamping was above 1 after
\* the overwork adjustment (negative coefficient), and a returned member whose
\* distance penalty is above 1.
C13_Witness ==
    /\ pc = "done"
    /\ \E i \in 1..Len(Returned) : \E j \in 1..Len(Returned[i].members) :
          LET m == Returned[i].members[j]
          IN  m.W_original - cfg.overwork_penalty * m.overwork_hours > 10
    /\ \E i \in 1..Len(Returned) : \E j \in 1..Len(Returned[i].members) :
          Returned[i].members[j].distance_penalty > 10

(***************************************************************************)
(* Claims about utils.py (SpecUtils).                                      *)
(***************************************************************************)
KnownLabel(l) ==
    IF l \in {"rarely available", "Rarely Available"} THEN "rarely"
    ELSE IF l \in {"generally available", "GENERALLY AVAILABLE"} THEN "generally"
    ELSE IF l = "immediately available" THEN "immediately"
    ELSE "unknown"

\* the table of the claim, in tenths
PenaltyTable(l, v) ==
    IF v = 2 /\ KnownLabel(l) = "rarely" THEN 4
    ELSE IF v = 2 /\ KnownLabel(l) = "generally" THEN 2
    ELSE IF v = 1 /\ KnownLabel(l) = "rarely" THEN 2
    ELSE 0

AvailabilityRank(l) ==
    IF KnownLabel(l) = "rarely" THEN 0 ELSE IF KnownLabel(l) = "generally" THEN 1 ELSE 2

\* C14: severity_penalty is the table HIGH: rarely 0.4, generally 0.2,
\* immediately 0; NORMAL: rarely 0.2; LOW: nothing; 0 for an unknown label or
\* level; so among the known labels and levels it never decreases as severity
\* rises and never increases as availability rises.
C14_SeverityPenaltyTable ==
    (ucall.fn = "severity_penalty" /\ uret # <<>>) =>
        /\ uret[1] = PenaltyTable(ucall.availability_label, ucall.severity_level)
        /\ (KnownLabel(ucall.availability_label) = "unknown"
                \/ ucall.severity_level \notin {0, 1, 2}) => uret[1] = 0
        /\ (KnownLabel(ucall.availability_label) # "unknown"
                /\ ucall.severity_level \in {0, 1, 2}) =>
              /\ \A v \in 0..2 :
                    v <= ucall.severity_level =>
                        severity_penalty(ucall.availability_label, v) <= uret[1]
              /\ \A l \in AvailabilityLabels :
                    (KnownLabel(l) # "unknown"
                        /\ AvailabilityRank(l) >= AvailabilityRank(ucall.availability_label))
                    => severity_penalty(l, ucall.severity_level) <= uret[1]

\* C14 witness: 'generally available' at HIGH severity cost 0.2.
C14_Witness ==
    /\ ucall.fn = "severity_penalty" /\ uret = <<2>>
    /\ ucall.availability_label = "generally available" /\ ucall.severity_level = 2

HighWords == {"emergency", "CRITICAL", "immediately"}
NormalWords == {"repair", "reviewed"}
HasWordOf(text, words) == \E i \in 1..Len(text.words) : text.words[i] \in words

\* C15: estimate_severity returns HIGH (2) when the text holds a HIGH keyword,
\* NORMAL keywords or not; NORMAL (1) when it holds a NORMAL keyword and no
\* HIGH one; LOW (0) for a non-empty text without keywords; NORMAL (1) for an
\* empty or missing text.
C15_EstimateSeverity ==
    (ucall.fn = "estimate_severity" /\ uret # <<>>) =>
        LET text == ucall.text
        IN  uret[1] =
                IF text.kind = "none" \/ Len(text.words) = 0 THEN 1
                ELSE IF HasWordOf(text, HighWords) THEN 2
                ELSE IF HasWordOf(text, NormalWords) THEN 1
                ELSE 0

\* C15 witness: a text with a NORMAL keyword followed by a HIGH keyword was
\* rated HIGH.
C15_Witness ==
    /\ ucall.fn = "estimate_severity" /\ uret = <<2>>
    /\ ucall.text.kind = "str" /\ Len(ucall.text.words) = 2
    /\ ucall.text.words[1] \in NormalWords /\ ucall.text.words[2] \in HighWords

Section(text, labels, body) ==
    \E i \in 2..Len(text) :
        /\ text[i] \in labels
        /\ SubSeq(text, i + 1, i + Len(body)) = body

\* C16: in both recommenders the text handed to the embedding starts with the
\* primary text; a supplied transcription follows it in a labelled section
\* and supplied visual tags follow it in a labelled section; with neither the
\* text is the primary text unchanged.
C16_FusedTaskText ==
    (ucall.fn = "task_text" /\ uret # <<>>) =>
        LET text == uret[1]
            c == ucall.config
            audio == c.transcription \notin {NoString, ""}
            tags == c.visual_tags # <<>>
        IN  /\ text[1] = c.proposal_text
            /\ audio =>
                 Section(text, {"[Transcribed Audio]: ", "[Transcribed Audio Context]: "},
                         <<c.transcription>>)
            /\ tags =>
                 Section(text, {"[Visual Tags]: ", "[Visual Content Tags]: "},
                         join_tags(c.visual_tags))
            /\ (~audio /\ ~tags) => text = <<c.proposal_text>>

WellFormed(row) ==
    /\ row.pid # 0 /\ row.start.kind = "ok" /\ row.end.kind = "ok"
    /\ row.start.t < row.end.t

RECURSIVE WellFormedOf(_, _)
WellFormedOf(rows, pid) ==
    IF rows = <<>> THEN <<>>
    ELSE (IF Head(rows).pid = pid /\ WellFormed(Head(rows))
          THEN <<<<Head(rows).start.t, Head(rows).end.t>>>> ELSE <<>>)
            \o WellFormedOf(Tail(rows), pid)

\* C17: parse_schedule_csv skips the malformed rows one by one (no id, no
\* start or end, a timestamp that does not parse, an end not after the
\* start) and records every well-formed row: each responder's intervals are
\* the well-formed rows of that responder, whatever the other rows hold.
C17_MalformedRowsSkipped ==
    (ucall.fn = "parse_schedule_csv" /\ uret # <<>>) =>
        \A pid \in 1..NPeople :
            uret[1][pid].intervals = WellFormedOf(ucall.rows, pid)

(***************************************************************************)
(* Claims about the greedy loop (Spec).                                    *)
(***************************************************************************)
Committed == pc = "greedy" /\ Len(team') = Len(team) + 1

\* the evaluation of the current team with one more member
CandidateEval(q) == evaluate_team(required_of(cfg), Append(team, q), cfg)
CandidateDelta(q) == RSub(CandidateEval(q).score, team_score)

Candidates == {i \in 1..Len(ranked) : ranked[i].person_id \notin id_set(team)}

\* x is at least as good as q under: delta, then coverage, then probability
Preferred(x, q) ==
    LET dx == CandidateDelta(x)
        dq == CandidateDelta(q)
        cx == CandidateEval(x).metrics.coverage
        cq == CandidateEval(q).metrics.coverage
    IN  /\ RLe(dq, dx)
        /\ dq = dx => RLe(cq, cx)
        /\ (dq = dx /\ cq = cx) => probs[q.person_id] <= probs[x.person_id]

\* C19: in both functions the member a greedy iteration commits has the
\* largest delta among the ranked candidates outside the team; among those
\* that tie on delta it has the highest coverage, and among those that tie
\* on both the highest ranker probability.
C19_CommitsBestCandidate ==
    [][Committed =>
          LET x == team'[Len(team')]
          IN  \A i \in Candidates : Preferred(x, ranked[i])]_vars

\* the team as it stands is complete: coverage >= 0.999 and k_robustness >= 0.999
TeamComplete ==
    /\ team # <<>>
    /\ LET metrics == evaluate_team(required_of(cfg), team, cfg).metrics
       IN  /\ RLe(Q(999, 1000), metrics.coverage)
           /\ RLe(Q(999, 1000), metrics.k_robustness)

\* C20: the greedy loop commits a member only while the team is below the
\* loop's soft cap, the gain of the committed member is positive (above the
\* 1e-9 tolerance) and the team was not complete after the previous commit;
\* so the score strictly increases with every commit and a complete team
\* never grows.
C20_CommitGuards ==
    [][Committed =>
          /\ Len(team) < soft_cap_of(mode, cfg)
          /\ RLt(RZero, CandidateDelta(team'[Len(team')]))
          /\ ~TeamComplete
          /\ RLt(team_score, team_score')
          /\ team_score' = CandidateEval(team'[Len(team')]).score]_vars

\* C20 witness: a team of two that is complete, the loop left with room
\* under the cap.
C20_Witness ==
    /\ pc = "variants" /\ Len(team) = 2 /\ TeamComplete
    /\ Len(team) < soft_cap_of(mode, cfg)
    /\ Len(ranked) > Len(team)

(***************************************************************************)
(* Claims about termination of the greedy loop (Spec).                     *)
(***************************************************************************)
LoopCap ==
    IF cfg.team_size = 0 THEN cfg.soft_cap
    ELSE IF mode = "service" /\ cfg.soft_cap > cfg.team_size THEN cfg.soft_cap
    ELSE cfg.team_size

\* a pass of the loop that commits one member who was not in the team
CommitsNewMember ==
    /\ pc' = "greedy"
    /\ Len(team') = Len(team) + 1
    /\ SubSeq(team', 1, Len(team)) = team
    /\ team'[Len(team')].person_id \notin id_set(team)
    /\ \E i \in 1..Len(ranked) : ranked[i] = team'[Len(team')]

\* a pass that leaves the loop: at the cap, at completeness, or for want of an
\* improving candidate
LeavesLoop ==
    /\ pc' = "variants" /\ team' = team
    /\ \/ Len(team) >= LoopCap
       \/ TeamComplete
       \/ \A i \in Candidates : RLe(CandidateDelta(ranked[i]), RZero)

\* C21: the greedy loop terminates: every pass either commits one member who
\* was not in the team or leaves the loop (at the cap, at completeness, or
\* when no candidate improves the team), and the team never holds more than
\* min(soft cap, pool size) members, so the passes are at most that many
\* commits and one exit.
C21_GreedyTerminates ==
    /\ [](Len(team) <= Min(LoopCap, Len(ranked)))
    /\ [][pc = "greedy" => (CommitsNewMember \/ LeavesLoop)]_vars

\* C21 witness: the loop was left for want of an improving candidate, with
\* one member committed, room under the cap and candidates remaining.
C21_Witness ==
    /\ pc = "variants" /\ Len(team) = 1 /\ Len(team) < LoopCap
    /\ ~TeamComplete /\ Len(ranked) > Len(team)

(***************************************************************************)
(* Claims about size-bucket selection (SpecUtils, Spec).                   *)
(***************************************************************************)
InRange(bucket, size) ==
    size >= bucket.min /\ (bucket.unbounded \/ size <= bucket.max)

\* the first bucket whose range holds the size; 0 if there is none
FirstBucket(buckets, size) ==
    IF \E b \in 1..Len(buckets) : InRange(buckets[b], size)
    THEN CHOOSE b \in 1..Len(buckets) :
            /\ InRange(buckets[b], size)
            /\ \A a \in 1..(b - 1) : ~InRange(buckets[a], size)
    ELSE 0

\* the teams whose first bucket is b, in input order, up to the bucket's limit
BucketContent(teams, buckets, b) ==
    LET mine == SelectSeq(teams, LAMBDA t : FirstBucket(buckets, t.team_size) = b)
    IN  SubSeq(mine, 1, Min(buckets[b].limit, Len(mine)))

RECURSIVE BucketsConcat(_, _, _)
BucketsConcat(teams, buckets, b) ==
    IF b > Len(buckets) THEN <<>>
    ELSE BucketContent(teams, buckets, b) \o BucketsConcat(teams, buckets, b + 1)

\* C22: select_top_teams_by_size with a non-empty bucket list gives each team
\* to its first matching bucket only, drops it when that bucket is full or no
\* bucket matches, fills no bucket beyond its limit, keeps the input order
\* inside a bucket, and returns the bucket contents in declared bucket order
\* with no team twice.
C22_FirstMatchingBucket ==
    (ucall.fn = "select_top_teams_by_size" /\ uret # <<>>) =>
        LET out == uret[1]
        IN  /\ out = BucketsConcat(ucall.teams, ucall.buckets, 1)
            /\ \A i, j \in 1..Len(out) : out[i] = out[j] => i = j

Handed == pc \in {"unique", "done"}

\* C23: when size buckets are configured (explicitly, through team_size, or
\* by default), every team handed to the uniqueness pass has a size inside
\* the range of some configured bucket, and of the teams whose first bucket
\* is b at most the limit of b are handed.
C23_FinalWithinBuckets ==
    (Handed /\ buckets_of(mode, cfg) # <<>>) =>
        LET buckets == buckets_of(mode, cfg)
        IN  /\ \A i \in 1..Len(final) :
                  \E b \in 1..Len(buckets) : InRange(buckets[b], final[i].team_size)
            /\ \A b \in 1..Len(buckets) :
                  Cardinality({i \in 1..Len(final) :
                                  FirstBucket(buckets, final[i].team_size) = b})
                      <= buckets[b].limit

\* the N of the global top-N
TopN == 10

\* C24: with no size buckets configured in run_recommender, the list handed
\* to the uniqueness pass is the first N = 10 teams of the sorted candidates,
\* never more than N teams.
C24_TopNWithoutBuckets ==
    (ucall.fn = "final_selection" /\ uret # <<>> /\ ucall.mode = "cli"
        /\ ucall.config.size_buckets = <<>>) =>
        /\ Len(uret[1]) <= TopN
        /\ uret[1] = SubSeq(ucall.sorted_recs, 1, Min(TopN, Len(ucall.sorted_recs)))

(***************************************************************************)
(* Claims about variants and deduplication (Spec).                         *)
(***************************************************************************)
Scored == pc \in {"unique", "done"}
MemberSet(r) == {r.members[i].person_id : i \in 1..Len(r.members)}

\* C25: after deduplication of the base team and its swap variants no two
\* surviving records have the same set of member ids, and every member set
\* that was generated is the member set of exactly one surviving record.
C25_DedupByMemberSet ==
    Scored =>
        LET surviving == dedup(recs)
        IN  /\ \A i, j \in 1..Len(surviving) :
                  MemberSet(surviving[i]) = MemberSet(surviving[j]) => i = j
            /\ \A r \in 1..Len(recs) :
                  Cardinality({i \in 1..Len(surviving) :
                                  MemberSet(surviving[i]) = MemberSet(recs[r])}) = 1

\* C25 witness: a team of two was scored with the variants of both slots for
\* the same outsider, which hold that outsider in different positions.
C25_Witness ==
    /\ Scored /\ Len(team) = 2
    /\ \E i, j \in 1..Len(recs) :
          /\ i # j
          /\ \E p \in MemberSet(recs[i]) \cap MemberSet(recs[j]) : p \notin id_set(team)

\* the K of the swap shortlist
TopK == IF cfg.topk_swap > 1 THEN cfg.topk_swap ELSE 1

\* base team with slot i given to the j-th ranked responder
Swap(i, j) == [team EXCEPT ![i] = ranked[j]]

Outsiders ==
    {j \in 1..Len(ranked) : j <= TopK /\ ranked[j].person_id \notin id_set(team)}

\* C26: the teams scored after the greedy construction are the base team
\* and, for each of the top K = max(1, topk_swap) ranked responders outside
\* the base team and each slot, the base team with that slot replaced;
\* every variant has the size of the base team, differs from it in exactly
\* one slot and holds no responder twice.
C26_BasePlusSingleSwaps ==
    Scored =>
        /\ {recs[r].members : r \in 1..Len(recs)}
              = {team} \cup {Swap(i, j) : i \in 1..Len(team), j \in Outsiders}
        /\ Len(recs) = 1 + Len(team) * Cardinality(Outsiders)
        /\ recs[1].members = team
        /\ \A r \in 2..Len(recs) :
              LET variant == recs[r].members
              IN  /\ Len(variant) = Len(team)
                  /\ Cardinality({i \in 1..Len(team) : variant[i] # team[i]}) = 1
                  /\ Cardinality(MemberSet(recs[r])) = Len(variant)
        /\ \A r \in 1..Len(recs) :
              recs[r] = team_record(recs[r].members, cfg)

\* C26 witness: a shortlist of one responder out of a longer ranking, who is
\* outside the base team of two, gave the two variants scored with the base.
C26_Witness ==
    /\ Scored /\ TopK = 1 /\ Len(ranked) > 1 /\ Len(team) = 2 /\ Len(recs) = 3
    /\ ranked[1].person_id \notin id_set(team)

(***************************************************************************)
(* Claims about k_robustness (SpecMetrics).                                *)
(***************************************************************************)
\* the members at the positions keep cover requirement i at tau: some phrase
\* of one of them has a weighted similarity of tau or more (a best of 0, with
\* nobody or no phrase left, is enough for tau <= 0)
CoveredBy(keep, i) ==
    \/ mtau <= 0
    \/ \E u \in keep : \E j \in 1..Len(mteam[u].skills) :
          simtab[<<mreq[i], mteam[u].skills[j]>>] * mteam[u].W >= mtau

StillCovers(keep) == \A i \in 1..Len(mreq) : CoveredBy(keep, i)

ClampedK ==
    LET hi == IF Len(mteam) - 1 > 1 THEN Len(mteam) - 1 ELSE 1
    IN  IF mk < 1 THEN 1 ELSE IF mk > hi THEN hi ELSE mk

Removals ==
    {rem \in SUBSET (1..Len(mteam)) :
        Cardinality(rem) >= 1 /\ Cardinality(rem) <= ClampedK}

\* C27: for a team whose every per-requirement best is at least tau, with k
\* clamped to [1, max(n - 1, 1)] and no more removal subsets of sizes 1..k
\* than the sampling limit, k_robustness is the number of those subsets
\* whose removal leaves every requirement covered at tau, divided by the
\* number of those subsets.
C27_KRobustnessFraction ==
    (mout # <<>> /\ mteam # <<>> /\ StillCovers(1..Len(mteam))
        /\ Cardinality(Removals) <= sample_limit) =>
        Out.metrics.k_robustness =
            Q(Cardinality({rem \in Removals : StillCovers((1..Len(mteam)) \ rem)}),
              Cardinality(Removals))

\* C27 witness: a team of three with k = 2, some removals leaving the
\* requirements covered and some not.
C27_Witness ==
    /\ mout # <<>> /\ Len(mteam) = 3 /\ mk = 2 /\ Len(mreq) = 2 /\ mtau > 0
    /\ StillCovers(1..Len(mteam))
    /\ RLt(RZero, Out.metrics.k_robustness) /\ RLt(Out.metrics.k_robustness, ROne)

\* sum of the hours of a list of (week_key, hours)
RECURSIVE SegmentHours(_)
SegmentHours(segments) ==
    IF segments = <<>> THEN 0 ELSE Head(segments)[2] + SegmentHours(Tail(segments))

SplitReturned == ucall.fn = "split_hours_by_week" /\ uret # <<>>

\* C28: split_hours_by_week(start, end) books every hour of [start, end) to
\* the ISO week (Monday 00:00 to the following Monday 00:00) that contains it,
\* whatever the weekday and time of day of start; the hours per week sum to
\* the duration, and the result is empty when end <= start.
C28_SplitHoursByIsoWeek ==
    SplitReturned =>
        LET ret == uret[1]
        IN  /\ ucall.end <= ucall.start => ret = <<>>
            /\ ucall.end > ucall.start => SegmentHours(ret) = ucall.end - ucall.start
            /\ \A w \in 0..((ucall.end \div HoursPerWeek) + 1) :
                  hours_of_week(ret, w) = HoursInWeek(ucall.start, ucall.end, w)

\* the parts of C28 that do not depend on where a week begins
C28_TotalAndEmpty ==
    SplitReturned =>
        LET ret == uret[1]
        IN  /\ ucall.end <= ucall.start => ret = <<>>
            /\ ucall.end > ucall.start => SegmentHours(ret) = ucall.end - ucall.start

DistinctIds(members) ==
    \A i, j \in 1..Len(members) : i # j => members[i].person_id # members[j].person_id

\* C29: every team a request returns has at least one member, pairwise
\* distinct person_ids, and only members of the schedule-filtered pool; a
\* greedy search that added nobody returns an empty list of teams, not a
\* team of size 0.
C29_ReturnedTeamsWellFormed ==
    (pc = "done" /\ err = "") =>
        /\ \A i \in 1..Len(Returned) :
              /\ Len(Returned[i].members) >= 1
              /\ Returned[i].team_size = Len(Returned[i].members)
              /\ DistinctIds(Returned[i].members)
              /\ id_set(Returned[i].members) \subseteq id_set(filtered_people)
        /\ team = <<>> => Returned = <<>>

\* C29 witness: the greedy search added nobody, the record of the empty team
\* was handed to the uniqueness pass, and the request returned no team.
C29_Witness ==
    /\ pc = "done" /\ err = "" /\ team = <<>> /\ filtered_people # <<>>
    /\ \E i \in 1..Len(final) : final[i].members = <<>>
    /\ Returned = <<>>

\* C29 second case: a returned team that lost a member to an earlier team.
C29_Shrunk ==
    /\ pc = "done" /\ err = ""
    /\ \E i \in 1..Len(Returned) : \E j \in 1..Len(final) :
          /\ Len(Returned[i].members) < Len(final[j].members)
          /\ SubSeq(final[j].members, 2, Len(final[j].members)) = Returned[i].members

\* the teams of rs come from teams of ts in the same order: each is what is
\* left of a later team of ts than the one before it
RECURSIVE KeepsOrder(_, _)
KeepsOrder(rs, ts) ==
    IF rs = <<>> THEN TRUE
    ELSE IF ts = <<>> THEN FALSE
    ELSE IF Head(rs).members # <<>>
            /\ id_set(Head(rs).members) \subseteq id_set(Head(ts).members)
         THEN KeepsOrder(Tail(rs), Tail(ts))
         ELSE KeepsOrder(rs, Tail(ts))

Untouched == pc = "unique" /\ fidx <= Len(final) /\ mode = "service"
                /\ final[fidx].members # <<>>
                /\ id_set(final[fidx].members) \cap assigned = {}

\* C30: _enforce_unique_members is idempotent and keeps the order: applied to
\* its own output it returns the same list, members and metrics included; a
\* team none of whose members was claimed earlier passes through unchanged;
\* the surviving teams keep their relative input order.
C30_UniquePassIdempotent ==
    /\ []((pc = "done" /\ err = "" /\ mode = "service") =>
            /\ Returned = enforce_unique_members(final, mode, cfg)
            /\ enforce_unique_members(Returned, mode, cfg) = Returned
            /\ KeepsOrder(Returned, final))
    /\ [][Untouched => resolved' = Append(resolved, final[fidx])]_vars

\* C30 witness: the service pass removed a member of one team and dropped
\* another team, and returned at least two teams.
C30_Witness ==
    /\ pc = "done" /\ err = "" /\ mode = "service"
    /\ Len(Returned) >= 2 /\ Len(Returned) < Len(final)
    /\ \E i \in 1..Len(Returned) : \A j \in 1..Len(final) : Returned[i] # final[j]

=============================================================================
